---------------------------- MODULE Spec2Model ----------------------------
(***************************************************************************)
(* Stream paywall proxy: the signed-URL scheme, the HLS access gateway,    *)
(* the coalescing playlist / segment caches and the device binding.        *)
(*                                                                         *)
(* Strings are sequences of atoms (one atom is one character, or a fixed   *)
(* multi-character piece such as "/hls/" that no other atom overlaps), so  *)
(* that concatenation, escaping and parsing are computed, not assumed.     *)
(* A time.Time is a number of ticks; a second is TicksPerSecond ticks.     *)
(***************************************************************************)
EXTENDS Integers, Sequences, FiniteSets, TLC

VARIABLES
    now,            \* wall clock, in ticks
    ticks,          \* number of clock steps taken so far
    signed,         \* signer: the URL last issued by SignURL, with its inputs
    verified,       \* signer: the last VerifyURL call and its result
    streamStatus,   \* durable store: status of each stream record
    streamCache,    \* StreamHandler.streamCache
    sessions,       \* session store: session:{token}
    devices,        \* session store: device:{token}
    sessionTTL,     \* session store: the instant each session key expires
    rateLimit,      \* session store: ratelimit:{kind}:{id}, counter and expiry
    payments,       \* durable store: the payments table, in insertion order
    whitelist,      \* durable store: the stream's stream_whitelist emails
    minted,         \* the access tokens generated so far, with their purpose
    cb,             \* payment callback: where each concurrent callback stands
    rec,            \* recovery: where each concurrent recovery stands
    playlistCache,  \* StreamHandler.playlistCache
    segmentCache,   \* StreamHandler.segmentCache
    hlsReq,         \* gateway: the HLS request being handled
    hlsResp,        \* gateway: the response to it
    proc,           \* fetch path: where each concurrent request stands
    flight,         \* fetch path: playlistFlight / segmentFlight, per key
    fetchLog,       \* fetch path: the upstream fetches issued, per key
    overlap,        \* fetch path: the requests that ran at the same time
    hb,             \* heartbeat: where each concurrent heartbeat stands
    accepted,       \* heartbeat: when each device was last accepted, per token
    retired,        \* recovery: the tokens answered recoveries have replaced
    recResp,        \* recovery: the response last returned
    activeSessions, \* session store: active_sessions:{stream}, token -> score
    viewers,        \* presence: the heartbeat request and the count last read
    rw,             \* rewriter: the playlist last served, as fetched and as sent
    cat,            \* catalog: where each concurrent getStreamCached stands
    boot,           \* startup: the environment and the configuration in use
    fault,          \* store failures: the request last handled and its answer
    share,          \* shared playlist: the token each cached playlist was fetched for
    pt,             \* paytrail: the signature last calculated and its verification
    page,           \* pages: the last answer of Watch or GetPlaylistURL
    gone            \* fetch path: the requests whose client has disconnected

\* The nil pointer: no record
None == [nil |-> TRUE]

(***************************************************************************)
(* Time                                                                    *)
(***************************************************************************)
TicksPerSecond == 2

Seconds(n) == n * TicksPerSecond

\* The clock moves to one of the given later instants, at most maxTicks times
Advance(instants, maxTicks) ==
    /\ ticks < maxTicks
    /\ \E d \in {x \in instants : x > now} : now' = d
    /\ ticks' = ticks + 1

\* time.Time.Unix(): whole seconds, the fraction is dropped
Unix(t) == t \div TicksPerSecond

\* The variables of the payment and recovery handlers
payVars == <<rateLimit, payments, whitelist, minted, cb, rec, retired, recResp>>

\* The variables of the presence count, the rewriter on its own, the catalog
\* cache under concurrent requests, startup and the store failures
\* The variables of the playlist cache shared between tokens, of the
\* Paytrail signature and of the pages that hand out a playlist URL
extVars == <<share, pt, page, gone>>
auxVars == <<rw, cat, boot, fault, extVars>>
presenceVars == <<activeSessions, viewers>>

\* cfg.SessionDuration
SessionDuration == Seconds(24 * 3600)

\* The session store drops a key once its TTL has run out: what the store
\* holds when the clock has moved to now'
ExpireKeys ==
    /\ sessions' = [t \in DOMAIN sessions |->
                       IF sessionTTL[t] > now' THEN sessions[t] ELSE None]
    /\ sessionTTL' = [t \in DOMAIN sessions |->
                         IF sessionTTL[t] > now' THEN sessionTTL[t] ELSE 0]

(***************************************************************************)
(* internal/security/signer.go                                             *)
(***************************************************************************)
\* cfg.SigningSecret and cfg.SignatureValidity, as given to NewURLSigner
SigningSecret == <<"k">>
SignatureValidity == 3

Digit == <<"0", "1", "2", "3", "4", "5", "6", "7", "8", "9">>

\* strconv.FormatInt(n, 10) and the %d verb, for n >= 0
RECURSIVE FormatInt(_)
FormatInt(n) ==
    IF n < 10 THEN <<Digit[n + 1]>>
    ELSE FormatInt(n \div 10) \o <<Digit[(n % 10) + 1]>>

DigitValue(c) == CHOOSE d \in 0..9 : Digit[d + 1] = c
IsDigit(c) == \E d \in 0..9 : Digit[d + 1] = c

RECURSIVE DigitsValue(_, _)
DigitsValue(s, acc) ==
    IF s = <<>> THEN acc
    ELSE DigitsValue(Tail(s), acc * 10 + DigitValue(Head(s)))

\* strconv.ParseInt(s, 10, 64): an error for the empty string and for any
\* character that is not a digit
ParseInt(s) ==
    IF s = <<>> \/ \E i \in 1..Len(s) : ~IsDigit(s[i])
    THEN [ok |-> FALSE, val |-> 0]
    ELSE [ok |-> TRUE, val |-> DigitsValue(s, 0)]

\* The characters url.QueryEscape rewrites, with their %XX form
PctChars == {":", "%", "/", "&", "=", "?"}
PctCode(c) ==
    CASE c = ":" -> <<"%", "3", "A">>
      [] c = "%" -> <<"%", "2", "5">>
      [] c = "/" -> <<"%", "2", "F">>
      [] c = "&" -> <<"%", "2", "6">>
      [] c = "=" -> <<"%", "3", "D">>
      [] c = "?" -> <<"%", "3", "F">>

\* url.QueryEscape
RECURSIVE QueryEscape(_)
QueryEscape(s) ==
    IF s = <<>> THEN <<>>
    ELSE (IF Head(s) \in PctChars THEN PctCode(Head(s)) ELSE <<Head(s)>>)
         \o QueryEscape(Tail(s))

\* url.QueryUnescape: %XX is decoded, a % that two hex digits do not follow
\* is an error
RECURSIVE QueryUnescape(_)
QueryUnescape(s) ==
    IF s = <<>> THEN [ok |-> TRUE, val |-> <<>>]
    ELSE IF Head(s) = "%"
    THEN IF Len(s) >= 3 /\ \E c \in PctChars : PctCode(c) = SubSeq(s, 1, 3)
         THEN LET c == CHOOSE x \in PctChars : PctCode(x) = SubSeq(s, 1, 3)
                  r == QueryUnescape(SubSeq(s, 4, Len(s)))
              IN  [ok |-> r.ok, val |-> <<c>> \o r.val]
         ELSE [ok |-> FALSE, val |-> <<>>]
    ELSE LET r == QueryUnescape(Tail(s))
         IN  [ok |-> r.ok, val |-> <<Head(s)>> \o r.val]

\* url.Values.Encode(): key=value pairs, keys sorted, values escaped.  The
\* query string is kept as the sequence of its pairs.
EncodeValues(token, expiresStr, sig) ==
    << [k |-> "expires", v |-> QueryEscape(expiresStr)],
       [k |-> "sig",     v |-> QueryEscape(sig)],
       [k |-> "token",   v |-> QueryEscape(token)] >>

\* url.Values.Get(key) on the parsed query: the first pair of that key whose
\* value unescapes, "" when there is none
QueryGet(query, key) ==
    LET idx == {i \in 1..Len(query) :
                   query[i].k = key /\ QueryUnescape(query[i].v).ok}
    IN  IF idx = {} THEN <<>>
        ELSE QueryUnescape(query[CHOOSE i \in idx : \A j \in idx : i <= j].v).val

\* hmac.New(sha256.New, secret) over the input: an ideal MAC, one digest per
\* (secret, input)
HmacSum(secret, input) == secret \o <<"|">> \o input

\* hex.EncodeToString: character by character, never a character that
\* QueryEscape rewrites
HexEncode(b) == [i \in 1..Len(b) |-> "h" \o b[i]]

\* fmt.Sprintf("%s:%s:%s:%d", streamID, token, path, expires)
SignatureInput(streamID, token, path, expires) ==
    streamID \o <<":">> \o token \o <<":">> \o path \o <<":">> \o FormatInt(expires)

Signature(streamID, token, path, expires) ==
    HexEncode(HmacSum(SigningSecret, SignatureInput(streamID, token, path, expires)))

\* URLSigner.SignURL at time t: path + "?" + params.Encode()
SignURL(streamID, token, path, t) ==
    LET expires == Unix(t + SignatureValidity)
    IN  [path  |-> path,
         query |-> EncodeValues(token, FormatInt(expires),
                                Signature(streamID, token, path, expires))]

\* A signer that already refuses in the expires second
SignatureExpiredEarly(t, expires) == Unix(t) >= expires

\* The expiry test of VerifyURL
SignatureExpired(t, expires) == Unix(t) > expires

\* URLSigner.VerifyURL at time t
VerifyURL(streamID, path, params, t) ==
    IF SignatureExpired(t, params.Expires) THEN "expired"
    ELSE IF Signature(streamID, params.Token, path, params.Expires) # params.Sig
         THEN "invalid"
         ELSE "ok"

\* URLSigner.VerifyURLFromRequest at time t
VerifyURLFromRequest(streamID, path, query, t) ==
    LET expiresStr == QueryGet(query, "expires")
        parsed == ParseInt(expiresStr)
    IN  IF expiresStr = <<>> THEN "missing"
        ELSE IF ~parsed.ok THEN "malformed"
        ELSE VerifyURL(streamID, path,
                       [Token   |-> QueryGet(query, "token"),
                        Sig     |-> QueryGet(query, "sig"),
                        Expires |-> parsed.val], t)

(***************************************************************************)
(* internal/handlers/stream.go: the access gateway                         *)
(***************************************************************************)
StreamStatuses == {"scheduled", "live", "ended"}

\* Stream ids as they appear in a request path.  "S1" is the upper-case
\* spelling of "s1"; "s2" is well formed but names no stream; "zz" is not a
\* UUID.
RequestIDs == { <<"s1">>, <<"S1">>, <<"s2">>, <<"zz">> }
DBStreams == {"u1"}
UUIDs == {"u1", "u2"}

\* uuid.Parse: the UUID a string spells, in any letter case
UUIDParse(id) ==
    CASE id = <<"s1">> -> [ok |-> TRUE, uuid |-> "u1"]
      [] id = <<"S1">> -> [ok |-> TRUE, uuid |-> "u1"]
      [] id = <<"s2">> -> [ok |-> TRUE, uuid |-> "u2"]
      [] OTHER         -> [ok |-> FALSE, uuid |-> "nil"]

\* uuid.UUID.String(): the canonical lower-case spelling
UUIDString(u) == IF u = "u1" THEN <<"s1">> ELSE <<"s2">>

\* streams.owncast_url of a stream record (private)
OwncastURLOf(u) == <<"http", ":", "/", "/", "oc-", u, "/">>

\* PostgresStore.GetStreamByID
GetStreamByID(u) ==
    IF u \in DBStreams
    THEN [ID |-> u, Status |-> streamStatus[u], OwncastURL |-> OwncastURLOf(u)]
    ELSE None

\* time.Now().Before(e.expiresAt) on a cache entry that exists
Fresh(entry, t) == entry # None /\ t < entry.expiresAt

\* StreamHandler.getStreamCached at time t: the stream the request is
\* decided on, and the catalog cache it leaves
getStreamCached(u, t) ==
    LET entry == streamCache[u]
    IN  IF Fresh(entry, t)
        THEN [stream |-> entry.stream, cache |-> streamCache]
        ELSE LET stream == GetStreamByID(u)
             IN  IF stream = None
                 THEN [stream |-> None, cache |-> [streamCache EXCEPT ![u] = None]]
                 ELSE [stream |-> stream,
                       cache |-> [streamCache EXCEPT ![u] =
                                    [stream |-> stream,
                                     expiresAt |-> t + Seconds(60)]]]

\* strings.HasSuffix(hlsPath, ".m3u8")
IsPlaylistPath(hlsPath) == hlsPath # <<>> /\ hlsPath[Len(hlsPath)] = ".m3u8"

\* "/stream/" + streamID + "/hls/" + hlsPath
ProxyPath(streamID, hlsPath) == <<"/stream/">> \o streamID \o <<"/hls/">> \o hlsPath

\* strings.TrimSuffix(stream.OwncastURL, "/") + "/hls/" + hlsPath
UpstreamURL(stream, hlsPath) ==
    LET u == stream.OwncastURL
        base == IF u # <<>> /\ u[Len(u)] = "/" THEN SubSeq(u, 1, Len(u) - 1) ELSE u
    IN  base \o <<"/hls/">> \o hlsPath

\* RedisStore.GetSession on a session store
GetSession(store, token) ==
    IF token \in DOMAIN store THEN store[token] ELSE None

(***************************************************************************)
(* rewritePlaylist                                                         *)
(***************************************************************************)
ExtAtoms == {".ts", ".m4s", ".m3u8"}
HashAtoms == {"#", "#EXTM3U", "#EXTINF"}

\* hlsURLRegex: ^[^#].*\.(ts|m4s|m3u8)(\?.*)?$
IsURLLine(line) ==
    /\ Len(line) >= 2
    /\ line[1] \notin HashAtoms
    /\ \E i \in 2..Len(line) :
          /\ line[i] \in ExtAtoms
          /\ (IF i = Len(line) THEN TRUE ELSE line[i + 1] = "?")

\* The line up to its first "?"
StripQuery(line) ==
    LET qs == {i \in 1..Len(line) : line[i] = "?"}
    IN  IF qs = {} THEN line
        ELSE SubSeq(line, 1, (CHOOSE i \in qs : \A j \in qs : i <= j) - 1)

\* The query string as text: k=v&k=v
RECURSIVE FlattenQuery(_)
FlattenQuery(q) ==
    IF q = <<>> THEN <<>>
    ELSE <<q[1].k, "=">> \o q[1].v
         \o (IF Len(q) > 1 THEN <<"&">> ELSE <<>>) \o FlattenQuery(Tail(q))

URLText(url) == url.path \o <<"?">> \o FlattenQuery(url.query)

\* One line of rewritePlaylist at time t
rewriteLine(line, streamID, token, baseDir, t) ==
    IF IsURLLine(line)
    THEN LET stripped == StripQuery(line)
             originalPath ==
                 IF stripped = <<>> \/ (stripped[1] # "/" /\ stripped[1] # "http")
                 THEN baseDir \o stripped ELSE stripped
         IN  URLText(SignURL(streamID, token, ProxyPath(streamID, originalPath), t))
    ELSE line

\* StreamHandler.rewritePlaylist at time t, on the lines of the body
rewritePlaylist(body, streamID, token, baseDir, t) ==
    [i \in 1..Len(body) |-> rewriteLine(body[i], streamID, token, baseDir, t)]

\* A base directory that is always the HLS root
BaseDirRoot(hlsPath) == <<>>

\* servePlaylist's baseDir: hlsPath up to and including its last "/", when
\* that is not its first character
BaseDir(hlsPath) ==
    LET is == {i \in 1..Len(hlsPath) : hlsPath[i] = "/"}
    IN  IF is = {} THEN <<>>
        ELSE LET idx == CHOOSE i \in is : \A j \in is : j <= i
             IN  IF idx > 1 THEN SubSeq(hlsPath, 1, idx) ELSE <<>>

(***************************************************************************)
(* The playlist and segment caches                                         *)
(***************************************************************************)
SegmentCacheLimit == 5 * 1024 * 1024

\* A fetch that takes any status for a success
FetchFailedOnErrorOnly(reply) == reply.err

\* A ceiling that admits a body of exactly the limit
SegmentCacheableUpTo(size) == size <= SegmentCacheLimit

\* An upstream reply is [err, status, content, size, ctype]: a transport or
\* read error, or a status with a body
FetchFailed(reply) == reply.err \/ reply.status # 200

\* An entry that holds the playlist as rewritten for one viewer
playlistEntrySigned(reply, t) ==
    [content |-> rewritePlaylist(reply.content, <<"s1">>, <<"t2">>, <<>>, t),
     expiresAt |-> t + Seconds(2)]

\* The entry servePlaylist's fetch stores at time t
playlistEntry(reply, t) ==
    [content |-> reply.content, expiresAt |-> t + Seconds(2)]

\* The entry serveSegment's fetch builds at time t
segmentEntry(reply, t) ==
    [data |-> reply.content, size |-> reply.size,
     contentType |-> IF reply.ctype = "" THEN "video/mp2t" ELSE reply.ctype,
     expiresAt |-> t + Seconds(30)]

\* "Cache if under 5MB"
SegmentCacheable(size) == size < SegmentCacheLimit

\* A cache without the entry of url that a request found expired
DeleteExpired(cache, url, t) ==
    IF cache[url] # None /\ ~Fresh(cache[url], t)
    THEN [cache EXCEPT ![url] = None] ELSE cache

\* servePlaylist, run from start to end with no other request in between,
\* at time t with the upstream answering reply
servePlaylist(stream, url, token, hlsPath, reply, t) ==
    LET entry == playlistCache[url]
        hit == Fresh(entry, t) /\ entry.content # <<>>
        \* the double check inside the flight finds what the first check found
        inner == Fresh(entry, t)
        cleaned == DeleteExpired(playlistCache, url, t)
        original == IF hit \/ inner THEN entry.content ELSE reply.content
        rewritten == rewritePlaylist(original, UUIDString(stream.ID), token,
                                     BaseDir(hlsPath), t)
    IN  IF ~hit /\ ~inner /\ FetchFailed(reply)
        THEN [status |-> 502, body |-> <<"Failed to fetch stream">>, ctype |-> "text/plain",
              fetched |-> TRUE, playlistCache |-> cleaned]
        ELSE [status |-> 200, body |-> rewritten,
              ctype |-> "application/vnd.apple.mpegurl",
              fetched |-> ~hit /\ ~inner,
              playlistCache |->
                  IF hit \/ inner THEN cleaned
                  ELSE [cleaned EXCEPT ![url] = playlistEntry(reply, t)]]

\* serveSegment, run from start to end with no other request in between
serveSegment(url, reply, t) ==
    LET entry == segmentCache[url]
        hit == Fresh(entry, t)
        cleaned == DeleteExpired(segmentCache, url, t)
        built == segmentEntry(reply, t)
    IN  IF hit
        THEN [status |-> 200, body |-> entry.data, ctype |-> entry.contentType,
              fetched |-> FALSE, segmentCache |-> segmentCache]
        ELSE IF FetchFailed(reply)
        THEN [status |-> 502, body |-> <<"Failed to fetch segment">>, ctype |-> "text/plain",
              fetched |-> TRUE, segmentCache |-> cleaned]
        ELSE [status |-> 200, body |-> built.data, ctype |-> built.contentType,
              fetched |-> TRUE,
              segmentCache |->
                  IF SegmentCacheable(built.size)
                  THEN [cleaned EXCEPT ![url] = built] ELSE cleaned]

\* http.Error: a refusal leaves the caches as they are
Refuse(code, msg, sc) ==
    [status |-> code, body |-> <<msg>>, ctype |-> "text/plain", fetched |-> FALSE,
     streamCache |-> sc, playlistCache |-> playlistCache,
     segmentCache |-> segmentCache]

\* A gateway that lets every status through
StreamAlwaysLive(stream) == TRUE

\* The status gate of ServeHLS
StreamIsLive(stream) == stream.Status = "live"

\* A session gate that does not compare the stream
SessionGateAnyStream(store, token, streamID) ==
    IF GetSession(store, token) = None THEN 401 ELSE 0

\* A gateway that asks for a session on every path
NeedsSessionAlways(hlsPath) == TRUE

\* The playlist-level session gate of ServeHLS: 0 when the request passes
SessionGate(store, token, streamID) ==
    LET session == GetSession(store, token)
    IN  IF session = None THEN 401
        ELSE IF session.StreamID # streamID THEN 403
        ELSE 0

\* Whether ServeHLS consults the session store for this path
NeedsSession(hlsPath) == IsPlaylistPath(hlsPath)

\* StreamHandler.ServeHLS at time now on request req, with the session store
\* holding store and the upstream answering reply: the response, whether the
\* upstream was asked, and the caches it leaves
ServeHLSResult(req, store, reply) ==
    IF req.short THEN Refuse(400, "Invalid path", streamCache)
    ELSE
    LET parsed == UUIDParse(req.streamID)
    IN  IF ~parsed.ok THEN Refuse(400, "Invalid stream ID", streamCache)
        ELSE
        LET sc == getStreamCached(parsed.uuid, now)
            stream == sc.stream
            token == QueryGet(req.query, "token")
            gate == IF NeedsSession(req.hlsPath)
                    THEN SessionGate(store, token, req.streamID) ELSE 0
        IN  IF stream = None THEN Refuse(404, "Stream not found", sc.cache)
            ELSE IF ~StreamIsLive(stream)
            THEN Refuse(403, "Stream is not live", sc.cache)
            ELSE IF VerifyURLFromRequest(req.streamID,
                        ProxyPath(req.streamID, req.hlsPath), req.query, now) # "ok"
            THEN Refuse(403, "Invalid or expired signature", sc.cache)
            ELSE IF gate = 401 THEN Refuse(401, "Session expired", sc.cache)
            ELSE IF gate = 403
            THEN Refuse(403, "Token not valid for this stream", sc.cache)
            ELSE
            LET url == UpstreamURL(stream, req.hlsPath)
            IN  IF IsPlaylistPath(req.hlsPath)
                THEN LET r == servePlaylist(stream, url, token, req.hlsPath, reply, now)
                     IN  [status |-> r.status, body |-> r.body, ctype |-> r.ctype,
                          fetched |-> r.fetched, streamCache |-> sc.cache,
                          playlistCache |-> r.playlistCache,
                          segmentCache |-> segmentCache]
                ELSE LET r == serveSegment(url, reply, now)
                     IN  [status |-> r.status, body |-> r.body, ctype |-> r.ctype,
                          fetched |-> r.fetched, streamCache |-> sc.cache,
                          playlistCache |-> playlistCache,
                          segmentCache |-> r.segmentCache]

(***************************************************************************)
(* The signer on its own: SignURL and VerifyURL applied to bounded inputs  *)
(***************************************************************************)
\* Stream ids are UUID strings and issued tokens are opaque: neither holds a
\* colon.  Paths come from playlist lines and may hold one; a presented
\* token is whatever the query string carries.
SignerStreamIDs == { <<"a">> }
PresentedStreamIDs == SignerStreamIDs \cup { <<"b">> }
SignerMaxTicks == 5
SignerTokens    == { <<"c">>, <<"c", "%">> }
PresentedTokens == SignerTokens \cup { <<"c", ":", "/", "p">> }
SignerPaths     == { <<"/", "p">>, <<"/", "q">>, <<"/", "p", ":", "/", "q">> }

\* What the signer leaves alone
signerFrame == <<streamStatus, streamCache, sessions, devices, playlistCache,
                 segmentCache, hlsReq, hlsResp, proc, flight, fetchLog, overlap,
                 hb, accepted, sessionTTL, payVars, presenceVars, auxVars>>

InitSigner ==
    /\ signed = None
    /\ verified = None

\* A caller signs (streamID, token, path)
SignerSign(streamID, token, path) ==
    /\ signed' = [streamID |-> streamID, token |-> token, path |-> path,
                  at |-> now,
                  url |-> SignURL(streamID, token, path, now)]
    /\ verified' = None
    /\ UNCHANGED <<now, ticks, signerFrame>>

\* The issued URL comes back unchanged: its query is parsed and verified
\* against the stream id and path it was signed for
SignerVerifyIssued ==
    /\ signed # None /\ verified = None
    /\ LET q == signed.url.query
           p == ParseInt(QueryGet(q, "expires"))
           params == [Token |-> QueryGet(q, "token"), Sig |-> QueryGet(q, "sig"),
                      Expires |-> p.val]
       IN  /\ p.ok
           /\ verified' = [streamID |-> signed.streamID, path |-> signed.url.path,
                           params |-> params, issued |-> TRUE,
                           result |-> VerifyURL(signed.streamID, signed.url.path,
                                                params, now)]
    /\ UNCHANGED <<now, ticks, signed, signerFrame>>

\* The signature as the client holds it: the sig parameter of the issued URL
IssuedSig == QueryGet(signed.url.query, "sig")
IssuedExpires == ParseInt(QueryGet(signed.url.query, "expires")).val

\* A signature that differs from the issued one in its last character
FlippedSig == SubSeq(IssuedSig, 1, Len(IssuedSig) - 1) \o <<"hx">>

\* Any (stream_id, token, path, expires) is presented with the issued
\* signature or with one that differs from it
SignerVerifyAny(streamID, token, path, later, flip) ==
    /\ signed # None /\ verified = None
    /\ LET params == [Token |-> token,
                      Sig |-> IF flip THEN FlippedSig ELSE IssuedSig,
                      Expires |-> IssuedExpires + later]
       IN  verified' = [streamID |-> streamID, path |-> path, params |-> params,
                        issued |-> FALSE,
                        result |-> VerifyURL(streamID, path, params, now)]
    /\ UNCHANGED <<now, ticks, signed, signerFrame>>

\* Time passes; the result of a verification is that of the instant it ran at
SignerTick ==
    /\ Advance({now + 1}, SignerMaxTicks)
    /\ verified' = None
    /\ UNCHANGED <<signed, signerFrame>>

NextSigner ==
    \/ \E s \in SignerStreamIDs, t \in SignerTokens, p \in SignerPaths :
          SignerSign(s, t, p)
    \/ SignerVerifyIssued
    \/ \E s \in PresentedStreamIDs, t \in PresentedTokens, p \in SignerPaths,
          later \in {0, 1}, flip \in BOOLEAN :
          SignerVerifyAny(s, t, p, later, flip)
    \/ SignerTick

(***************************************************************************)
(* The gateway serving one HLS request at a time, while streams change     *)
(* status, sessions come and go and the clock runs                         *)
(***************************************************************************)
GateMaxTicks == 1

GateTokens == { <<"t1">>, <<"t2">> }

\* generateAccessToken: the n-th token generated; no two are equal
MaxMinted == 3
NewToken(n) == <<"k">> \o FormatInt(n)
AccessTokens == GateTokens \cup {NewToken(n) : n \in 1..MaxMinted}
SessionStreams == { <<"s1">>, <<"s2">> }
PlaylistPath == <<"stream", ".m3u8">>
SegmentPath == <<"seg", ".ts">>
HLSPaths == {PlaylistPath, SegmentPath}
UpstreamURLs == { UpstreamURL([OwncastURL |-> OwncastURLOf(u)], p) :
                    u \in DBStreams, p \in HLSPaths }

\* The stream each token was paid for
PaidStream(token) == IF token = <<"t1">> THEN <<"s1">> ELSE <<"s2">>

\* A session record: the stream the token was issued for
Session(token, streamID) == [Token |-> token, StreamID |-> streamID]
SessionStores ==
    {st \in [GateTokens -> {None} \cup {Session(t, s) : t \in GateTokens,
                                                        s \in SessionStreams}] :
        \A t \in GateTokens : st[t] = None \/ st[t].Token = t}

\* What the upstream may answer for a path
UpstreamPlaylist == << <<"#EXTM3U">>, <<"#EXTINF">>, <<"seg", ".ts">> >>
UpstreamReply(hlsPath, found) ==
    IF found
    THEN [err |-> FALSE, status |-> 200, size |-> 1, ctype |-> "",
          content |-> IF IsPlaylistPath(hlsPath) THEN UpstreamPlaylist ELSE <<"bytes">>]
    ELSE [err |-> FALSE, status |-> 404, size |-> 0, ctype |-> "", content |-> <<>>]

\* The query strings a client may present for (id, hlsPath) at time t: signed
\* by this server for a token, expiring in the current second or in the one
\* before it; with a signature that is not the MAC; without expires and sig
QueryKinds == {"t1", "t2", "expired", "forged", "bare"}
GateQuery(kind, id, hlsPath, t) ==
    LET tok == IF kind = "t2" THEN <<"t2">> ELSE <<"t1">>
        e == IF kind = "expired" THEN Unix(t) - 1 ELSE Unix(t)
    IN  CASE kind = "bare" -> << [k |-> "token", v |-> tok] >>
          [] kind = "forged" -> EncodeValues(tok, FormatInt(e), <<"hbad">>)
          [] OTHER -> EncodeValues(tok, FormatInt(e),
                                   Signature(id, tok, ProxyPath(id, hlsPath), e))

Idle == hlsReq = None /\ hlsResp = None

gateEnv == <<streamStatus, sessions, devices, sessionTTL>>
gateCaches == <<streamCache, playlistCache, segmentCache>>

\* What the gateway leaves alone
gateFrame == <<signed, verified, proc, flight, fetchLog, overlap, hb, accepted,
               payVars, presenceVars, auxVars>>

\* A client sends GET /stream/{id}/hls/{path}?{query}
HLSArrive(id, hlsPath, kind) ==
    /\ Idle
    /\ hlsReq' = [short |-> FALSE, streamID |-> id, hlsPath |-> hlsPath,
                  query |-> GateQuery(kind, id, hlsPath, now)]
    /\ UNCHANGED <<now, ticks, gateEnv, gateCaches, hlsResp, gateFrame>>

\* A client sends a path with fewer than four parts
HLSArriveShort ==
    /\ Idle
    /\ hlsReq' = [short |-> TRUE, streamID |-> <<>>, hlsPath |-> <<>>, query |-> <<>>]
    /\ UNCHANGED <<now, ticks, gateEnv, gateCaches, hlsResp, gateFrame>>

\* StreamHandler.ServeHLS handles the request
ServeHLS(found) ==
    /\ hlsReq # None
    /\ LET r == ServeHLSResult(hlsReq, sessions, UpstreamReply(hlsReq.hlsPath, found))
       IN  /\ hlsResp' = [req |-> hlsReq, status |-> r.status, body |-> r.body,
                          ctype |-> r.ctype, fetched |-> r.fetched]
           /\ streamCache' = r.streamCache
           /\ playlistCache' = r.playlistCache
           /\ segmentCache' = r.segmentCache
    /\ hlsReq' = None
    /\ UNCHANGED <<now, ticks, gateEnv, gateFrame>>

\* The client has its response
HLSDone ==
    /\ hlsResp # None
    /\ hlsResp' = None
    /\ UNCHANGED <<now, ticks, gateEnv, gateCaches, hlsReq, gateFrame>>

\* The admin changes a stream's status in the durable store
UpdateStreamStatus(u, st) ==
    /\ Idle
    /\ streamStatus[u] # st
    /\ streamStatus' = [streamStatus EXCEPT ![u] = st]
    /\ UNCHANGED <<now, ticks, sessions, devices, sessionTTL, gateCaches, hlsReq, hlsResp,
                   gateFrame>>

\* SessionManager.CreateSession
CreateSession(token, streamID) ==
    /\ Idle
    /\ sessions[token] = None
    /\ sessions' = [sessions EXCEPT ![token] = Session(token, streamID)]
    /\ sessionTTL' = [sessionTTL EXCEPT ![token] = now + SessionDuration]
    /\ UNCHANGED <<now, ticks, streamStatus, devices, gateCaches, hlsReq, hlsResp,
                   gateFrame>>

\* SessionManager.DeleteSession: the session and the device binding
DeleteSession(token) ==
    /\ Idle
    /\ sessions[token] # None
    /\ sessions' = [sessions EXCEPT ![token] = None]
    /\ sessionTTL' = [sessionTTL EXCEPT ![token] = 0]
    /\ devices' = [devices EXCEPT ![token] = None]
    /\ UNCHANGED <<now, ticks, streamStatus, gateCaches, hlsReq, hlsResp,
                   gateFrame>>

\* The instants at which a cache entry stops being fresh
CacheDeadlines ==
    {streamCache[u].expiresAt : u \in {x \in UUIDs : streamCache[x] # None}}
    \cup {playlistCache[k].expiresAt : k \in {x \in UpstreamURLs : playlistCache[x] # None}}
    \cup {segmentCache[k].expiresAt : k \in {x \in UpstreamURLs : segmentCache[x] # None}}

\* Time passes up to the expiry of a cache entry
GateTick ==
    /\ Idle
    /\ Advance(CacheDeadlines, GateMaxTicks)
    /\ ExpireKeys
    /\ UNCHANGED <<streamStatus, devices, gateCaches, hlsReq, hlsResp, gateFrame>>

NextGate ==
    \/ \E id \in RequestIDs, p \in HLSPaths, k \in QueryKinds : HLSArrive(id, p, k)
    \/ HLSArriveShort
    \/ \E found \in BOOLEAN : ServeHLS(found)
    \/ HLSDone
    \/ \E u \in DBStreams, st \in StreamStatuses : UpdateStreamStatus(u, st)
    \/ \E t \in GateTokens : CreateSession(t, PaidStream(t))
    \/ \E t \in GateTokens : DeleteSession(t)
    \/ GateTick

(***************************************************************************)
(* servePlaylist and serveSegment step by step, for requests that passed   *)
(* the gateway and run concurrently                                        *)
(***************************************************************************)
FetchProcs == {"r1", "r2"}
FetchMaxTicks == 1
MaxFetches == 3

PlaylistURL == UpstreamURL([OwncastURL |-> OwncastURLOf("u1")], PlaylistPath)
SegmentURL == UpstreamURL([OwncastURL |-> OwncastURLOf("u1")], SegmentPath)

\* ServeHLS hands a path ending in .m3u8 to servePlaylist, any other to
\* serveSegment
IsPlaylistURL(url) == url[Len(url)] = ".m3u8"

CacheOf(url) == IF IsPlaylistURL(url) THEN playlistCache[url] ELSE segmentCache[url]
\* The entry of url once the step is taken
CacheAfter(url) == IF IsPlaylistURL(url) THEN playlistCache'[url] ELSE segmentCache'[url]
CacheTTL(url) == IF IsPlaylistURL(url) THEN Seconds(2) ELSE Seconds(30)

\* sync.Map.Store / Delete on the cache of url
SetCache(url, e) ==
    /\ playlistCache' = IF IsPlaylistURL(url)
                        THEN [playlistCache EXCEPT ![url] = e] ELSE playlistCache
    /\ segmentCache' = IF IsPlaylistURL(url)
                       THEN segmentCache ELSE [segmentCache EXCEPT ![url] = e]

\* What a cache entry holds for the response
EntryData(url, e) == IF IsPlaylistURL(url) THEN e.content ELSE e.data
EntryCType(url, e) ==
    IF IsPlaylistURL(url) THEN "application/vnd.apple.mpegurl" ELSE e.contentType

\* The upstream's body at the n-th fetch of url: the live edge moves, no two
\* fetches return the same bytes
FetchBody(url, n) ==
    IF IsPlaylistURL(url)
    THEN << <<"#EXTM3U">>, <<"#", Digit[n + 1]>>, <<"seg", ".ts">> >>
    ELSE <<"bytes", Digit[n + 1]>>

\* What the upstream may answer: a body just under, at or just over the
\* segment cache ceiling, a status other than 200, or no answer
FetchReplyKinds == {"small", "exact", "large", "status", "error"}
FetchReply(url, kind, n) ==
    CASE kind = "error" ->
           [err |-> TRUE, status |-> 0, size |-> 0, ctype |-> "", content |-> <<>>]
      [] kind = "status" ->
           [err |-> FALSE, status |-> 404, size |-> 0, ctype |-> "", content |-> <<>>]
      [] OTHER ->
           [err |-> FALSE, status |-> 200, ctype |-> "", content |-> FetchBody(url, n),
            size |-> CASE kind = "small" -> SegmentCacheLimit - 1
                       [] kind = "exact" -> SegmentCacheLimit
                       [] OTHER          -> SegmentCacheLimit + 1]

\* The response written from what the cache or the flight gave
FetchResponse(url, result, missed) ==
    IF result.err
    THEN [status |-> 502, data |-> <<>>, ctype |-> "text/plain",
          missed |-> missed, fetchNo |-> result.fetchNo]
    ELSE [status |-> 200, data |-> result.data, ctype |-> result.ctype,
          missed |-> missed, fetchNo |-> result.fetchNo]

\* What a cache entry gives
FromEntry(url, e) ==
    [err |-> FALSE, data |-> EntryData(url, e), ctype |-> EntryCType(url, e),
     fetchNo |-> 0]

\* A call whose end gives the result to its leader alone
DeliverToLeader(url, result) ==
    [q \in FetchProcs |->
        IF proc[q].url = url /\ proc[q].pc \in {"inner", "fetching"}
        THEN [proc[q] EXCEPT !.pc = "idle", !.resp = FetchResponse(url, result, TRUE)]
        ELSE proc[q]]

\* singleflight: the call of url ends, its leader and every caller waiting on
\* it are given the result
Deliver(url, result) ==
    [q \in FetchProcs |->
        IF proc[q].url = url /\ proc[q].pc \in {"wait", "inner", "fetching"}
        THEN [proc[q] EXCEPT !.pc = "idle", !.resp = FetchResponse(url, result, TRUE)]
        ELSE proc[q]]

TotalFetches == Len(fetchLog[PlaylistURL]) + Len(fetchLog[SegmentURL])

\* What the fetch path leaves alone
fetchFrame == <<signed, verified, streamStatus, streamCache, sessions, devices,
                hlsReq, hlsResp, hb, accepted, sessionTTL, payVars, presenceVars,
                auxVars>>

\* A request for url reaches servePlaylist / serveSegment and makes the first
\* cache check: Load, then time.Now().Before(expiresAt).  The requests of one
\* behaviour are all for the same url: the caches and the flights are per key.
FetchArrive(p, url) ==
    /\ proc[p].pc = "idle"
    /\ \A q \in FetchProcs :
          (proc[q].pc # "idle" \/ proc[q].resp # None) => proc[q].url = url
    /\ LET entry == CacheOf(url)
           hit == Fresh(entry, now) /\ (IsPlaylistURL(url) => entry.content # <<>>)
       IN  proc' = [proc EXCEPT ![p] =
               [pc   |-> IF hit THEN "idle"
                         ELSE IF entry # None /\ ~Fresh(entry, now) THEN "delete"
                         ELSE "do",
                url  |-> url,
                resp |-> IF hit THEN FetchResponse(url, FromEntry(url, entry), FALSE)
                         ELSE None]]
    /\ overlap' = {pr \in overlap : p \notin pr}
                  \cup {{p, q} : q \in {x \in FetchProcs \ {p} : proc[x].pc # "idle"}}
    /\ UNCHANGED <<now, ticks, playlistCache, segmentCache, flight, fetchLog, fetchFrame>>

\* The entry was found expired: Delete(owncastURL)
FetchDelete(p) ==
    /\ proc[p].pc = "delete"
    /\ SetCache(proc[p].url, None)
    /\ proc' = [proc EXCEPT ![p].pc = "do"]
    /\ UNCHANGED <<now, ticks, flight, fetchLog, overlap, fetchFrame>>

\* singleflight.Group.Do: join the call in flight for the key, or start one
FetchDo(p) ==
    /\ proc[p].pc = "do"
    /\ LET url == proc[p].url
       IN  IF flight[url] # None
           THEN /\ proc' = [proc EXCEPT ![p].pc = "wait"]
                /\ UNCHANGED flight
           ELSE /\ proc' = [proc EXCEPT ![p].pc = "inner"]
                /\ flight' = [flight EXCEPT ![url] = [leader |-> p]]
    /\ UNCHANGED <<now, ticks, playlistCache, segmentCache, fetchLog, overlap, fetchFrame>>

\* Inside the call: the double check, then the GET is sent
FetchInner(p) ==
    /\ proc[p].pc = "inner"
    /\ LET url == proc[p].url
           entry == CacheOf(url)
       IN  IF Fresh(entry, now)
           THEN /\ proc' = Deliver(url, FromEntry(url, entry))
                /\ flight' = [flight EXCEPT ![url] = None]
                /\ UNCHANGED fetchLog
           ELSE /\ TotalFetches < MaxFetches
                /\ fetchLog' = [fetchLog EXCEPT ![url] =
                       Append(@, [done |-> FALSE, err |-> FALSE, status |-> 0, size |-> 0,
                                  issuedAt |-> now, doneAt |-> 0, stored |-> FALSE,
                                  by |-> p])]
                /\ proc' = [proc EXCEPT ![p].pc = "fetching"]
                /\ UNCHANGED flight
    /\ UNCHANGED <<now, ticks, playlistCache, segmentCache, overlap, fetchFrame>>

\* The upstream answers: the entry is built and stored, the call ends
FetchReturn(p, kind) ==
    /\ proc[p].pc = "fetching"
    /\ IsPlaylistURL(proc[p].url) => kind \notin {"exact", "large"}
    /\ LET url == proc[p].url
           n == Len(fetchLog[url])
           reply == FetchReply(url, kind, n)
           entry == IF IsPlaylistURL(url) THEN playlistEntry(reply, now)
                    ELSE segmentEntry(reply, now)
           store == IsPlaylistURL(url) \/ SegmentCacheable(reply.size)
       IN  /\ IF ~FetchFailed(reply) /\ store
              THEN SetCache(url, entry)
              ELSE UNCHANGED <<playlistCache, segmentCache>>
           /\ fetchLog' = [fetchLog EXCEPT ![url][n] =
                  [done |-> TRUE, err |-> reply.err, status |-> reply.status,
                   size |-> reply.size, issuedAt |-> @.issuedAt, doneAt |-> now,
                   by |-> @.by,
                   stored |-> CacheAfter(url) # CacheOf(url)]]
           /\ proc' = Deliver(url,
                  IF FetchFailed(reply)
                  THEN [err |-> TRUE, data |-> <<>>, ctype |-> "", fetchNo |-> n]
                  ELSE [err |-> FALSE, data |-> EntryData(url, entry),
                        ctype |-> EntryCType(url, entry), fetchNo |-> n])
           /\ flight' = [flight EXCEPT ![url] = None]
    /\ UNCHANGED <<now, ticks, overlap, fetchFrame>>

FetchTick ==
    /\ Advance({now + 1} \cup CacheDeadlines, FetchMaxTicks)
    /\ UNCHANGED <<playlistCache, segmentCache, proc, flight, fetchLog, overlap,
                   fetchFrame>>

NextFetch ==
    \/ \E p \in FetchProcs, url \in UpstreamURLs : FetchArrive(p, url)
    \/ \E p \in FetchProcs : FetchDelete(p)
    \/ \E p \in FetchProcs : FetchDo(p)
    \/ \E p \in FetchProcs : FetchInner(p)
    \/ \E p \in FetchProcs, kind \in FetchReplyKinds : FetchReturn(p, kind)
    \/ FetchTick

InitFetch ==
    /\ proc = [p \in FetchProcs |-> [pc |-> "idle", url |-> SegmentURL, resp |-> None]]
    /\ flight = [k \in UpstreamURLs |-> None]
    /\ fetchLog = [k \in UpstreamURLs |-> <<>>]
    /\ overlap = {}

(***************************************************************************)
(* Heartbeat and ValidateDevice step by step, for heartbeats that run      *)
(* concurrently                                                            *)
(***************************************************************************)
HbProcs == {"h1", "h2"}
HbTokens == { <<"t1">> }
DeviceIDs == {"d1", "d2"}
DeviceMaxTicks == 2

\* cfg.HeartbeatTimeout, in ticks
HeartbeatTimeout == 3

\* What the heartbeat path leaves alone
deviceRest == <<signed, verified, streamStatus, streamCache, playlistCache,
                segmentCache, hlsReq, hlsResp, proc, flight, fetchLog, overlap,
                payVars, auxVars>>
deviceFrame == <<deviceRest, presenceVars>>

HbIdle(h) == hb[h].pc = "idle"

\* cfg.BaseURL
BaseURL == <<"http://localhost:3000">>

\* writeJSONError: the JSON object of models.APIError, whose empty message is
\* omitted
APIError(message) == [error |-> <<message>>]

\* The JSON object Heartbeat answers 200 with
HeartbeatOK(streamID, token, t) ==
    [success |-> <<"true">>, message |-> <<"Heartbeat received">>,
     playlist_url |-> BaseURL \o URLText(SignURL(streamID, token,
                                      ProxyPath(streamID, PlaylistPath), t))]

\* The body Heartbeat writes with each status
HeartbeatBody(status, streamID, token, t) ==
    IF status = 401 THEN APIError("Invalid or expired token")
    ELSE IF status = 403 THEN APIError("Token not valid for this stream")
    ELSE IF status = 409
         THEN APIError("Another device is currently watching this stream")
    ELSE IF status = 200 THEN HeartbeatOK(streamID, token, t)
    ELSE None

\* POST /api/stream/{id}/heartbeat with a token and a device id ("" for none)
HbArrive(h, token, streamID, deviceID) ==
    /\ HbIdle(h)
    /\ hb' = [hb EXCEPT ![h] = [pc |-> "session", token |-> token, streamID |-> streamID,
                                deviceID |-> deviceID, current |-> None, at |-> 0,
                                status |-> 0, body |-> None]]
    /\ UNCHANGED <<now, ticks, sessions, devices, sessionTTL, accepted, deviceFrame>>

\* RedisStore.RefreshSession at time t: EXPIRE on the session key, which does
\* nothing when the key is gone
RefreshSession(token, t) ==
    IF sessions[token] # None
    THEN [sessionTTL EXCEPT ![token] = t + SessionDuration]
    ELSE sessionTTL

\* The TTL Heartbeat gives TrackActiveSession
PresenceTTL == Seconds(45)

\* RedisStore.TrackActiveSession at time t: ZADD of the token with the score
\* time.Now().Add(ttl).Unix() to the set of the stream the session names
TrackActiveSession(streamID, token, t) ==
    LET u == UUIDParse(streamID).uuid
    IN  [activeSessions EXCEPT ![u][token] = Unix(t + PresenceTTL)]

\* A heartbeat that validates the device whether or not it was given an id
HasDeviceIDAlways(deviceID) == TRUE

\* "Validate device if device ID is provided"
HasDeviceID(deviceID) == deviceID # ""

\* Heartbeat up to the call of ValidateDevice, and all of it when no device id
\* is given: the session, its stream, the refresh of the session TTL and the
\* presence score
HbSession(h) ==
    /\ hb[h].pc = "session"
    /\ LET session == GetSession(sessions, hb[h].token)
           status == IF session = None THEN 401
                     ELSE IF session.StreamID # hb[h].streamID THEN 403
                     ELSE IF ~HasDeviceID(hb[h].deviceID) THEN 200
                     ELSE 0
       IN  /\ hb' = [hb EXCEPT
               ![h].pc = IF status = 0 THEN "get" ELSE "idle",
               ![h].status = status,
               ![h].body = HeartbeatBody(status, hb[h].streamID, hb[h].token, now)]
           /\ sessionTTL' = IF status = 200 THEN RefreshSession(hb[h].token, now)
                            ELSE sessionTTL
           /\ activeSessions' =
                  IF status = 200
                  THEN TrackActiveSession(session.StreamID, hb[h].token, now)
                  ELSE activeSessions
    /\ UNCHANGED <<now, ticks, sessions, devices, accepted, viewers, deviceRest>>

\* ValidateDevice: GetActiveDevice, then now := time.Now()
HbGetDevice(h) ==
    /\ hb[h].pc = "get"
    /\ hb' = [hb EXCEPT ![h].pc = "set", ![h].current = devices[hb[h].token],
                        ![h].at = now]
    /\ UNCHANGED <<now, ticks, sessions, devices, sessionTTL, accepted, deviceFrame>>

\* A takeover allowed as soon as the timeout has elapsed
DeviceAllowedAtTimeout(current, deviceID, at) ==
    \/ current = None
    \/ current.DeviceID = deviceID
    \/ at - current.LastSeen >= HeartbeatTimeout

\* The decision of ValidateDevice on the binding it read
DeviceAllowed(current, deviceID, at) ==
    \/ current = None
    \/ current.DeviceID = deviceID
    \/ at - current.LastSeen > HeartbeatTimeout

\* A ValidateDevice that notes the attempt of a refused device in the binding
DeviceStoreTouched(token, deviceID, at, allowed) ==
    IF allowed
    THEN [devices EXCEPT ![token] = [DeviceID |-> deviceID, LastSeen |-> at]]
    ELSE [devices EXCEPT ![token].LastSeen = at]

\* The bindings ValidateDevice leaves: SetActiveDevice with LastSeen: now when
\* the device is allowed, no write when it is refused
DeviceStore(token, deviceID, at, allowed) ==
    IF allowed
    THEN [devices EXCEPT ![token] = [DeviceID |-> deviceID, LastSeen |-> at]]
    ELSE devices

\* ValidateDevice from its decision on: SetActiveDevice when the device is
\* allowed, then the rest of Heartbeat: the refresh of the session TTL, the
\* presence score and the response
HbSetDevice(h) ==
    /\ hb[h].pc = "set"
    /\ LET token == hb[h].token
           allowed == DeviceAllowed(hb[h].current, hb[h].deviceID, hb[h].at)
       IN  /\ devices' = DeviceStore(token, hb[h].deviceID, hb[h].at, allowed)
           /\ accepted' = IF allowed
                          THEN [accepted EXCEPT ![token][hb[h].deviceID] = hb[h].at]
                          ELSE accepted
           /\ hb' = [hb EXCEPT ![h].pc = "idle", ![h].current = None, ![h].at = 0,
                               ![h].status = IF allowed THEN 200 ELSE 409,
                               ![h].body = HeartbeatBody(IF allowed THEN 200 ELSE 409,
                                               hb[h].streamID, token, now)]
           /\ sessionTTL' = IF allowed THEN RefreshSession(token, now) ELSE sessionTTL
           /\ activeSessions' =
                  IF allowed THEN TrackActiveSession(hb[h].streamID, token, now)
                  ELSE activeSessions
    /\ UNCHANGED <<now, ticks, sessions, viewers, deviceRest>>

\* The instants at which a bound device is last refused a takeover, and first
\* allowed one
DeviceDeadlines ==
    UNION {{devices[t].LastSeen + HeartbeatTimeout,
            devices[t].LastSeen + HeartbeatTimeout + 1} :
              t \in {x \in GateTokens : devices[x] # None}}

DeviceTick ==
    /\ Advance({now + 1} \cup DeviceDeadlines, DeviceMaxTicks)
    /\ ExpireKeys
    /\ UNCHANGED <<devices, hb, accepted, deviceFrame>>

NextDevice ==
    \/ \E h \in HbProcs, t \in HbTokens, s \in SessionStreams,
          d \in DeviceIDs \cup {""} : HbArrive(h, t, s, d)
    \/ \E h \in HbProcs : HbSession(h)
    \/ \E h \in HbProcs : HbGetDevice(h)
    \/ \E h \in HbProcs : HbSetDevice(h)
    \/ \E t \in HbTokens : CreateSession(t, PaidStream(t))
    \/ DeviceTick

\* Concurrent heartbeats over a time too short for a binding to time out
HbMaxTicks == 1

HeartbeatTick ==
    /\ Advance({now + 1}, HbMaxTicks)
    /\ ExpireKeys
    /\ UNCHANGED <<devices, hb, accepted, deviceFrame>>

NextHeartbeat ==
    \/ \E h \in HbProcs, t \in HbTokens, s \in SessionStreams,
          d \in DeviceIDs \cup {""} : HbArrive(h, t, s, d)
    \/ \E h \in HbProcs : HbSession(h)
    \/ \E h \in HbProcs : HbGetDevice(h)
    \/ \E h \in HbProcs : HbSetDevice(h)
    \/ \E t \in HbTokens : CreateSession(t, PaidStream(t))
    \/ HeartbeatTick

(***************************************************************************)
(* A takeover: the bound device d1 stops sending heartbeats, device d2     *)
(* keeps sending them for the same token                                   *)
(***************************************************************************)
\* The tick at which d1 has sent its last heartbeat and has its answer
StopAfter == 1

\* d1 sends a heartbeat, until it stops
IncumbentArrive ==
    /\ ticks < StopAfter
    /\ sessions[<<"t1">>] # None
    /\ HbArrive("h1", <<"t1">>, <<"s1">>, "d1")

\* d2 keeps sending heartbeats for the same token while its session lives
ChallengerArrive ==
    /\ sessions[<<"t1">>] # None
    /\ HbArrive("h2", <<"t1">>, <<"s1">>, "d2")

\* Time passes: d1's heartbeats are answered before it stops, and the clock
\* is followed until HeartbeatTimeout after that has passed
TakeoverTick ==
    /\ ticks + 1 < StopAfter \/ HbIdle("h1")
    /\ ticks < StopAfter + HeartbeatTimeout + 1
    /\ now' = now + 1
    /\ ticks' = ticks + 1
    /\ ExpireKeys
    /\ UNCHANGED <<devices, hb, accepted, deviceFrame>>

NextTakeover ==
    \/ CreateSession(<<"t1">>, <<"s1">>)
    \/ IncumbentArrive
    \/ ChallengerArrive
    \/ \E h \in HbProcs : HbSession(h)
    \/ \E h \in HbProcs : HbGetDevice(h)
    \/ \E h \in HbProcs : HbSetDevice(h)
    \/ TakeoverTick

(***************************************************************************)
(* Presence: the token of a heartbeat and the count of active viewers      *)
(***************************************************************************)
PresenceProcs == {"h1"}
PresenceMaxTicks == 2

\* What a heartbeat request carries a token in: the access_token cookie, the
\* Authorization header and the token query parameter, each empty or not
Carriers(cookie, auth, query) == [cookie |-> cookie, auth |-> auth, query |-> query]

\* The Authorization header of a bearer token
Bearer(token) == <<"Bearer ">> \o token

CarrierSets ==
    { Carriers(c, a, q) : c \in {<<>>, <<"t1">>},
                          a \in {<<>>} \cup {Bearer(t) : t \in GateTokens},
                          q \in {<<>>, <<"t2">>} }

\* Heartbeat, the token it reads from the request: the cookie's value, and the
\* token query parameter when that is empty
HeartbeatToken(req) == IF req.cookie # <<>> THEN req.cookie ELSE req.query

\* POST /api/stream/{id}/heartbeat with the token carried as req has it: a
\* request Heartbeat finds no token in is answered 401 at once.  The request
\* has no X-Device-ID header.
PresenceArrive(h, req, streamID) ==
    /\ HbIdle(h)
    /\ LET token == HeartbeatToken(req)
           missing == token = <<>>
       IN  hb' = [hb EXCEPT ![h] =
                    [pc |-> IF missing THEN "idle" ELSE "session",
                     token |-> token, streamID |-> streamID, deviceID |-> "",
                     current |-> None, at |-> 0,
                     status |-> IF missing THEN 401 ELSE 0,
                     body |-> IF missing THEN APIError("Missing access token")
                              ELSE None]]
    /\ viewers' = [viewers EXCEPT !.req[h] = req]
    /\ UNCHANGED <<now, ticks, sessions, devices, sessionTTL, accepted, activeSessions,
                   deviceRest>>

\* The members of a sorted set: the tokens that have a score
Members(set) == {t \in DOMAIN set : set[t] >= 0}

\* ZREMRANGEBYSCORE key -inf max: both ends belong to the range
ZRemRangeByScore(set, max) == [t \in DOMAIN set |-> IF set[t] <= max THEN -1 ELSE set[t]]

\* RedisStore.CountActiveSessions on the set of stream u: the members up to
\* the Unix second of the read are removed, the rest are counted
CountActiveSessions(u) ==
    /\ LET left == ZRemRangeByScore(activeSessions[u], Unix(now))
       IN  /\ activeSessions' = [activeSessions EXCEPT ![u] = left]
           /\ viewers' = [viewers EXCEPT !.count =
                             [stream |-> u, at |-> now, before |-> activeSessions[u],
                              after |-> left, n |-> Cardinality(Members(left))]]
    /\ UNCHANGED <<now, ticks, sessions, devices, sessionTTL, hb, accepted, deviceRest>>

\* Time passes: half a second, or up to the presence TTL
PresenceTick ==
    /\ Advance({now + 1, now + PresenceTTL - 1, now + PresenceTTL},
               PresenceMaxTicks)
    /\ ExpireKeys
    /\ UNCHANGED <<devices, hb, accepted, deviceFrame>>

NextPresence ==
    \/ \E h \in PresenceProcs, req \in CarrierSets : PresenceArrive(h, req, <<"s1">>)
    \/ \E h \in PresenceProcs : HbSession(h)
    \/ \E t \in GateTokens : CreateSession(t, <<"s1">>)
    \/ \E u \in DBStreams : CountActiveSessions(u)
    \/ PresenceTick

InitDevice ==
    /\ hb = [h \in HbProcs |-> [pc |-> "idle", token |-> <<>>, streamID |-> <<>>,
                                deviceID |-> "", current |-> None, at |-> 0,
                                status |-> 0, body |-> None]]
    /\ accepted = [t \in GateTokens |-> [d \in DeviceIDs |-> -1]]

(***************************************************************************)
(* Payments: handlers/payment.go, the payments table and the rate limiter  *)
(***************************************************************************)
\* The email that buys or is whitelisted, and the emails that ask for recovery
Customers == {"a"}
Emails == Customers \cup {"b"}
MaxPayments == 1
PayMaxTicks == 2
RecMaxTicks == 1

\* The one stream on sale, and the address every recovery comes from
PayStream == "u1"
ClientIP == "ip1"

\* cfg.RecoveryRateLimitPerEmail and cfg.RecoveryRateLimitPerIP, scaled down,
\* and the window CheckRecoveryRateLimit passes
RecoveryRateLimitPerEmail == 2
RecoveryRateLimitPerIP == 3
RateWindow == Seconds(3600)

\* The 500 ms floor of RecoverToken
RecoveryFloor == TicksPerSecond \div 2

\* ratelimit:recover:email:{hashEmail(email)} and ratelimit:recover:ip:{ip};
\* hashEmail is taken to map different emails to different keys
EmailKey(email) == <<"recover:email:", email>>
IPKey(ip) == <<"recover:ip:", ip>>
RateKeys == {EmailKey(e) : e \in Emails} \cup {IPKey(ClientIP)}

\* A limiter that lets one call more through
LimitReachedAbove(current, limit) == current # None /\ current.count > limit

\* The test of the limiter script: current and tonumber(current) >= limit
LimitReached(current, limit) == current # None /\ current.count >= limit

\* RedisStore.CheckAndIncrementRateLimit at time t: the script runs as one
\* operation of the store; the answer and the store it leaves
CheckAndIncrementRateLimit(store, key, limit, window, t) ==
    IF LimitReached(store[key], limit)
    THEN [allowed |-> FALSE, store |-> store]
    ELSE LET result == IF store[key] = None THEN 1 ELSE store[key].count + 1
         IN  [allowed |-> TRUE,
              store |-> [store EXCEPT ![key] =
                            [count |-> result,
                             expires |-> IF result = 1 THEN t + window
                                         ELSE store[key].expires]]]

\* RedisStore.CheckRecoveryRateLimit: the email counter, then the IP counter
CheckRecoveryRateLimit(store, email, ip, t) ==
    LET e == CheckAndIncrementRateLimit(store, EmailKey(email),
                                        RecoveryRateLimitPerEmail, RateWindow, t)
    IN  IF ~e.allowed THEN e
        ELSE CheckAndIncrementRateLimit(e.store, IPKey(ip),
                                        RecoveryRateLimitPerIP, RateWindow, t)

\* A row of the payments table; its id is its position.  No token is the
\* empty string, no expiry is -1.
Payment(email, amount, status, ref, token, expiry, t) ==
    [StreamID |-> PayStream, Email |-> email, AmountCents |-> amount,
     Status |-> status, PaytrailRef |-> ref, AccessToken |-> token,
     TokenExpiry |-> expiry, CreatedAt |-> t]

\* streams.price_cents of the stream on sale
PriceCents == 500

\* PostgresStore.GetCompletedPaymentByEmailAndStream: the ids the query may
\* return, the completed payments of the email created last
CompletedPayments(email) ==
    {i \in 1..Len(payments) : /\ payments[i].Email = email
                              /\ payments[i].StreamID = PayStream
                              /\ payments[i].Status = "completed"}
GetCompletedPaymentByEmailAndStream(email) ==
    {i \in CompletedPayments(email) :
        \A j \in CompletedPayments(email) :
            payments[j].CreatedAt <= payments[i].CreatedAt}

\* generateAccessToken was called for a payment: the token is not yet in any
\* response
Minted(id, by) == [payment |-> id, by |-> by, sent |-> FALSE]

\* A response sets the access_token cookie to a token
Sent(token) ==
    [n \in 1..Len(minted) |->
        IF NewToken(n) = token THEN [minted[n] EXCEPT !.sent = TRUE] ELSE minted[n]]

\* RedisStore.SetSession with the TTL cfg.SessionDuration, at the current time
SetSession(token) ==
    /\ sessions' = [sessions EXCEPT ![token] =
                       Session(token, UUIDString(PayStream))]
    /\ sessionTTL' = [sessionTTL EXCEPT ![token] = now + SessionDuration]

\* What the payment handlers leave alone
payFrame == <<signed, verified, streamStatus, streamCache, playlistCache,
              segmentCache, hlsReq, hlsResp, proc, flight, fetchLog, overlap,
              hb, accepted, presenceVars, auxVars>>

\* PaymentHandler.CreatePayment: a pending payment whose stamp is its id
CreatePayment(email) ==
    /\ Len(payments) < MaxPayments
    /\ GetStreamByID(PayStream).Status # "ended"
    /\ payments' = Append(payments,
           Payment(email, PriceCents, "pending", FormatInt(Len(payments) + 1),
                   <<>>, -1, now))
    /\ UNCHANGED <<now, ticks, sessions, devices, sessionTTL, rateLimit, whitelist,
                   minted, cb, rec, retired, recResp, payFrame>>

(***************************************************************************)
(* PaymentHandler.HandleSuccessCallback                                    *)
(***************************************************************************)
CbProcs == {"c1", "c2"}
CbIdle == [pc |-> "idle", id |-> 0, token |-> <<>>, status |-> 0, cookie |-> <<>>]

\* A signed callback for the stamp of payment id arrives: the payment is
\* read; one already completed is answered with its token, and a callback
\* that reports the payment as pending is answered with the pending page
CallbackArrive(c, id, outcome) ==
    /\ cb[c].pc = "idle"
    /\ id \in 1..Len(payments)
    /\ payments[id].PaytrailRef = FormatInt(id)
    /\ cb' = [cb EXCEPT ![c] =
          IF payments[id].Status = "completed"
          THEN [CbIdle EXCEPT !.status = 302, !.cookie = payments[id].AccessToken]
          ELSE IF outcome = "pending"
          THEN [CbIdle EXCEPT !.status = 302]
          ELSE [CbIdle EXCEPT !.pc = IF outcome = "ok" THEN "update" ELSE "fail",
                              !.id = id]]
    /\ minted' = IF payments[id].Status = "completed"
                 THEN Sent(payments[id].AccessToken) ELSE minted
    /\ UNCHANGED <<now, ticks, sessions, devices, sessionTTL, rateLimit, payments,
                   whitelist, rec, retired, recResp, payFrame>>

\* generateAccessToken, then UpdatePaymentStatus to completed
CallbackUpdate(c) ==
    /\ cb[c].pc = "update"
    /\ Len(minted) < MaxMinted
    /\ LET token == NewToken(Len(minted) + 1)
       IN  /\ minted' = Append(minted, Minted(cb[c].id, "callback"))
           /\ payments' = [payments EXCEPT ![cb[c].id] =
                  [@ EXCEPT !.Status = "completed", !.AccessToken = token,
                            !.TokenExpiry = now + SessionDuration]]
           /\ cb' = [cb EXCEPT ![c].pc = "session", ![c].token = token]
    /\ UNCHANGED <<now, ticks, sessions, devices, sessionTTL, rateLimit, whitelist,
                   rec, retired, recResp, payFrame>>

\* SetSession for the new token, then the redirect with the cookie
CallbackSession(c) ==
    /\ cb[c].pc = "session"
    /\ SetSession(cb[c].token)
    /\ cb' = [cb EXCEPT ![c] = [CbIdle EXCEPT !.status = 302,
                                              !.cookie = cb[c].token]]
    /\ minted' = Sent(cb[c].token)
    /\ UNCHANGED <<now, ticks, devices, rateLimit, payments, whitelist,
                   rec, retired, recResp, payFrame>>

\* The callback reported a failed payment: UpdatePaymentStatus to failed
CallbackFail(c) ==
    /\ cb[c].pc = "fail"
    /\ payments' = [payments EXCEPT ![cb[c].id] =
           [@ EXCEPT !.Status = "failed", !.AccessToken = <<>>, !.TokenExpiry = -1]]
    /\ cb' = [cb EXCEPT ![c] = [CbIdle EXCEPT !.status = 302]]
    /\ UNCHANGED <<now, ticks, sessions, devices, sessionTTL, rateLimit, whitelist,
                   minted, rec, retired, recResp, payFrame>>

(***************************************************************************)
(* PaymentHandler.HandleCancelCallback                                     *)
(***************************************************************************)
\* A signed cancel callback for the stamp of payment id arrives: the payment
\* is read, and one that is pending goes on to the update
CancelArrive(c, id) ==
    /\ cb[c].pc = "idle"
    /\ id \in 1..Len(payments)
    /\ payments[id].PaytrailRef = FormatInt(id)
    /\ cb' = [cb EXCEPT ![c] =
          IF payments[id].Status = "pending"
          THEN [CbIdle EXCEPT !.pc = "cancel", !.id = id]
          ELSE [CbIdle EXCEPT !.status = 302]]
    /\ UNCHANGED <<now, ticks, sessions, devices, sessionTTL, rateLimit, payments,
                   whitelist, minted, rec, retired, recResp, payFrame>>

\* UpdatePaymentStatus to failed, then the redirect
CancelUpdate(c) ==
    /\ cb[c].pc = "cancel"
    /\ payments' = [payments EXCEPT ![cb[c].id] =
           [@ EXCEPT !.Status = "failed", !.AccessToken = <<>>, !.TokenExpiry = -1]]
    /\ cb' = [cb EXCEPT ![c] = [CbIdle EXCEPT !.status = 302]]
    /\ UNCHANGED <<now, ticks, sessions, devices, sessionTTL, rateLimit, whitelist,
                   minted, rec, retired, recResp, payFrame>>

\* What Paytrail reports in a callback
CallbackOutcomes == {"ok", "pending", "fail"}

\* A payment is made, and its success, pending, failure and cancel callbacks
\* race
NextCallbacks ==
    \/ \E e \in Customers : CreatePayment(e)
    \/ \E c \in CbProcs, id \in 1..MaxPayments, o \in CallbackOutcomes :
          CallbackArrive(c, id, o)
    \/ \E c \in CbProcs : CallbackUpdate(c)
    \/ \E c \in CbProcs : CallbackSession(c)
    \/ \E c \in CbProcs : CallbackFail(c)
    \/ \E c \in CbProcs, id \in 1..MaxPayments : CancelArrive(c, id)
    \/ \E c \in CbProcs : CancelUpdate(c)

(***************************************************************************)
(* RecoveryHandler.RecoverToken                                            *)
(***************************************************************************)
RecProcs == {"v1", "v2"}
RecIdle == [pc |-> "idle", email |-> "", start |-> 0, id |-> 0, old |-> <<>>,
            expiry |-> -1, token |-> <<>>, replaced |-> <<>>, status |-> 0]

\* A response of the recovery endpoint: the status, the time the handler took
\* and the token the payment was read with
Response(email, status, elapsed) ==
    [email |-> email, status |-> status, elapsed |-> elapsed]

\* PostgresStore.AddWhitelistEntry, by an administrator
AddWhitelistEntry(email) ==
    /\ email \notin whitelist
    /\ whitelist' = whitelist \cup {email}
    /\ UNCHANGED <<now, ticks, sessions, devices, sessionTTL, rateLimit, payments,
                   minted, cb, rec, retired, recResp, payFrame>>

\* The request is decoded and passed through the rate limiter; a body that
\* does not decode and a limited request are answered at once
RecoverArrive(r, email, valid) ==
    /\ rec[r].pc = "idle"
    /\ LET lim == CheckRecoveryRateLimit(rateLimit, email, ClientIP, now)
       IN  /\ rateLimit' = IF valid THEN lim.store ELSE rateLimit
           /\ rec' = [rec EXCEPT ![r] =
                 IF valid /\ lim.allowed
                 THEN [RecIdle EXCEPT !.pc = "lookup", !.email = email,
                                      !.start = now]
                 ELSE RecIdle]
           /\ recResp' = IF ~valid THEN Response(email, 400, 0)
                         ELSE IF ~lim.allowed THEN Response(email, 429, 0)
                         ELSE recResp
    /\ UNCHANGED <<now, ticks, sessions, devices, sessionTTL, payments, whitelist,
                   minted, cb, retired, payFrame>>

\* GetStreamBySlug and GetCompletedPaymentByEmailAndStream
RecoverLookup(r) ==
    /\ rec[r].pc = "lookup"
    /\ LET found == GetCompletedPaymentByEmailAndStream(rec[r].email)
       IN  IF found = {}
           THEN rec' = [rec EXCEPT ![r].pc = "whitelist"]
           ELSE \E i \in found :
                   rec' = [rec EXCEPT ![r].pc = "check", ![r].id = i,
                                      ![r].old = payments[i].AccessToken,
                                      ![r].expiry = payments[i].TokenExpiry]
    /\ UNCHANGED <<now, ticks, sessions, devices, sessionTTL, rateLimit, payments,
                   whitelist, minted, cb, retired, recResp, payFrame>>

\* No payment was found: IsEmailWhitelisted, then createWhitelistedAccess up
\* to CreatePayment, or 404
RecoverWhitelist(r) ==
    /\ rec[r].pc = "whitelist"
    /\ IF rec[r].email \in whitelist
       THEN /\ Len(minted) < MaxMinted
            /\ LET token == NewToken(Len(minted) + 1)
                   id == Len(payments) + 1
               IN  /\ minted' = Append(minted, Minted(id, "whitelist"))
                   /\ payments' = Append(payments,
                          Payment(rec[r].email, 0, "completed", <<"whitelist">>,
                                  token, now + SessionDuration, now))
                   /\ rec' = [rec EXCEPT ![r].pc = "granted", ![r].id = id,
                                         ![r].old = token,
                                         ![r].expiry = now + SessionDuration]
       ELSE /\ rec' = [rec EXCEPT ![r].pc = "respond", ![r].status = 404]
            /\ UNCHANGED <<payments, minted>>
    /\ UNCHANGED <<now, ticks, sessions, devices, sessionTTL, rateLimit, whitelist,
                   cb, retired, recResp, payFrame>>

\* createWhitelistedAccess: SetSession for the token of the new payment
RecoverGranted(r) ==
    /\ rec[r].pc = "granted"
    /\ SetSession(rec[r].old)
    /\ rec' = [rec EXCEPT ![r].pc = "check"]
    /\ UNCHANGED <<now, ticks, devices, rateLimit, payments, whitelist, minted,
                   cb, retired, recResp, payFrame>>

\* A recovery that never finds a payment expired
TokenNeverExpired(expiry, t) == FALSE

\* payment.TokenExpiry != nil && time.Now().After(*payment.TokenExpiry)
TokenExpired(expiry, t) == expiry # -1 /\ t > expiry

\* The expiry check, then generateAccessToken and UpdatePaymentAccessToken
RecoverCheck(r) ==
    /\ rec[r].pc = "check"
    /\ IF TokenExpired(rec[r].expiry, now)
       THEN /\ rec' = [rec EXCEPT ![r].pc = "respond", ![r].status = 410]
            /\ UNCHANGED <<payments, minted>>
       ELSE /\ Len(minted) < MaxMinted
            /\ LET token == NewToken(Len(minted) + 1)
               IN  /\ minted' = Append(minted, Minted(rec[r].id, "recover"))
                   /\ payments' = [payments EXCEPT ![rec[r].id] =
                          [@ EXCEPT !.AccessToken = token,
                                    !.TokenExpiry = now + SessionDuration]]
                   /\ rec' = [rec EXCEPT ![r].pc = "delete", ![r].token = token,
                          ![r].replaced = payments[rec[r].id].AccessToken]
    /\ UNCHANGED <<now, ticks, sessions, devices, sessionTTL, rateLimit, whitelist,
                   cb, retired, recResp, payFrame>>

\* DeleteSession and DeleteActiveDevice for the token the payment was read with
RecoverDelete(r) ==
    /\ rec[r].pc = "delete"
    /\ IF rec[r].old # <<>>
       THEN /\ sessions' = [sessions EXCEPT ![rec[r].old] = None]
            /\ sessionTTL' = [sessionTTL EXCEPT ![rec[r].old] = 0]
            /\ devices' = [devices EXCEPT ![rec[r].old] = None]
       ELSE UNCHANGED <<sessions, sessionTTL, devices>>
    /\ rec' = [rec EXCEPT ![r].pc = "session"]
    /\ UNCHANGED <<now, ticks, rateLimit, payments, whitelist, minted, cb,
                   retired, recResp, payFrame>>

\* SetSession for the new token; the cookie and the body are written
RecoverSession(r) ==
    /\ rec[r].pc = "session"
    /\ SetSession(rec[r].token)
    /\ rec' = [rec EXCEPT ![r].pc = "respond", ![r].status = 200]
    /\ UNCHANGED <<now, ticks, devices, rateLimit, payments, whitelist, minted,
                   cb, retired, recResp, payFrame>>

\* The deferred sleep has brought the handler to 500 ms and it returns: the
\* response reaches the client.  A success has replaced the token that
\* UpdatePaymentAccessToken overwrote.
RecoverRespond(r) ==
    /\ rec[r].pc = "respond"
    /\ now >= rec[r].start + RecoveryFloor
    /\ rec' = [rec EXCEPT ![r] = RecIdle]
    /\ recResp' = Response(rec[r].email, rec[r].status, now - rec[r].start)
    /\ retired' = IF rec[r].status = 200 /\ rec[r].replaced # <<>>
                  THEN retired \cup {rec[r].replaced} ELSE retired
    /\ minted' = IF rec[r].status = 200 THEN Sent(rec[r].token) ELSE minted
    /\ UNCHANGED <<now, ticks, sessions, devices, sessionTTL, rateLimit, payments,
                   whitelist, cb, payFrame>>

\* The instants at which a token expiry is reached and has just passed, and
\* at which a limiter window runs out
PayDeadlines ==
    UNION {{payments[i].TokenExpiry, payments[i].TokenExpiry + 1} :
              i \in {j \in 1..Len(payments) : payments[j].TokenExpiry # -1}}
    \cup {rateLimit[k].expires : k \in {x \in RateKeys : rateLimit[x] # None}}

\* No handler is between two of its store operations
Quiet ==
    /\ \A c \in CbProcs : cb[c].pc = "idle"
    /\ \A r \in RecProcs : rec[r].pc \in {"idle", "respond"}
    /\ \A h \in HbProcs : HbIdle(h)

\* The clock runs, by half a second at any time and by a second or to a
\* deadline while no handler is at work (a handler takes less than a second);
\* the store drops the keys whose TTL has run out
PayTick(maxTicks) ==
    /\ Advance({now + 1}
                 \cup (IF Quiet THEN {now + Seconds(1)} \cup PayDeadlines ELSE {}),
               maxTicks)
    /\ ExpireKeys
    /\ rateLimit' = [k \in RateKeys |->
                        IF rateLimit[k] # None /\ rateLimit[k].expires > now'
                        THEN rateLimit[k] ELSE None]
    /\ UNCHANGED <<devices, payments, whitelist, minted, cb, rec, retired, recResp, payFrame>>

\* Payments are made and confirmed, with callbacks that race, and the
\* viewer's player sends heartbeats
NextPayment ==
    \/ \E e \in Customers : CreatePayment(e)
    \/ \E c \in CbProcs, id \in 1..MaxPayments, o \in {"ok", "fail"} :
          CallbackArrive(c, id, o)
    \/ \E c \in CbProcs : CallbackUpdate(c)
    \/ \E c \in CbProcs : CallbackSession(c)
    \/ \E c \in CbProcs : CallbackFail(c)
    \/ \E t \in AccessTokens \ GateTokens :
          HbArrive("h1", t, UUIDString(PayStream), "")
    \/ HbSession("h1")
    \/ PayTick(PayMaxTicks)

\* An email is whitelisted and recoveries race.  The completed payments are
\* the ones createWhitelistedAccess inserts; a purchased payment is handled
\* by the same statements once GetCompletedPaymentByEmailAndStream returned it
NextRecovery ==
    \/ \E e \in Customers : AddWhitelistEntry(e)
    \/ \E r \in RecProcs, e \in Emails, valid \in BOOLEAN : RecoverArrive(r, e, valid)
    \/ \E r \in RecProcs : RecoverLookup(r)
    \/ \E r \in RecProcs : RecoverWhitelist(r)
    \/ \E r \in RecProcs : RecoverGranted(r)
    \/ \E r \in RecProcs : RecoverCheck(r)
    \/ \E r \in RecProcs : RecoverDelete(r)
    \/ \E r \in RecProcs : RecoverSession(r)
    \/ \E r \in RecProcs : RecoverRespond(r)
    \/ PayTick(RecMaxTicks)

InitPayment ==
    /\ rateLimit = [k \in RateKeys |-> None]
    /\ payments = <<>>
    /\ whitelist = {}
    /\ minted = <<>>
    /\ cb = [c \in CbProcs |-> CbIdle]
    /\ rec = [r \in RecProcs |-> RecIdle]
    /\ retired = {}
    /\ recResp = None

(***************************************************************************)
(* The playlist rewriter on the bytes of a playlist, and the requests a    *)
(* client makes for the lines it is sent                                   *)
(***************************************************************************)
\* What the rewriter, the catalog cache, startup and the store failures leave
\* alone
coreVars == <<signed, verified, sessions, devices, sessionTTL, playlistCache,
              segmentCache, hlsReq, hlsResp, proc, flight, fetchLog, overlap, hb,
              accepted, payVars, presenceVars>>

MaxLines == 2
MaxDepth == 2

\* A scanner that keeps the carriage return of a line
keepCR(data) == data

\* bufio's dropCR: one trailing carriage return is dropped
dropCR(data) ==
    IF data # <<>> /\ data[Len(data)] = "\r" THEN SubSeq(data, 1, Len(data) - 1)
    ELSE data

\* bufio.Scanner with bufio.ScanLines, run to the end of the data: the lines
\* up to each "\n", and what is left after the last one unless it is empty
RECURSIVE ScanLines(_)
ScanLines(data) ==
    LET ns == {i \in 1..Len(data) : data[i] = "\n"}
    IN  IF data = <<>> THEN <<>>
        ELSE IF ns = {} THEN <<dropCR(data)>>
        ELSE LET i == CHOOSE n \in ns : \A m \in ns : n <= m
             IN  <<dropCR(SubSeq(data, 1, i - 1))>>
                 \o ScanLines(SubSeq(data, i + 1, Len(data)))

\* result.WriteString(line) and result.WriteString("\n"), line after line
RECURSIVE WriteLines(_)
WriteLines(lines) ==
    IF lines = <<>> THEN <<>>
    ELSE lines[1] \o <<"\n">> \o WriteLines(Tail(lines))

\* StreamHandler.rewritePlaylist at time t, on the bytes of the body
rewritePlaylistBytes(content, streamID, token, baseDir, t) ==
    WriteLines(rewritePlaylist(ScanLines(content), streamID, token, baseDir, t))

\* The stream the playlists are served for
RewriteStream == "u1"

\* The lines an upstream playlist is made of: tags, a blank line, a variant
\* playlist in a directory, segments with and without a query, a URI of
\* another extension, a URL on another host, a rooted URI, and a tag that
\* names the origin
OriginTag == <<"#">> \o OwncastURLOf(RewriteStream) \o <<"hls", "/", "init", ".mp4">>
RewriteLines ==
    { <<"#EXTM3U">>, <<>>, <<"0", "/", "stream", ".m3u8">>, <<"seg-1", ".ts">>,
      <<"seg-1", ".ts", "?", "x">>, <<"init", ".mp4">>,
      <<"http", ":", "/", "/", "cdn", "/", "seg-1", ".ts">>,
      <<"/", "hls", "/", "seg-1", ".ts">>, OriginTag }
Endings == { <<"\n">>, <<"\r", "\n">> }

\* The bytes of a playlist of the given lines, each ended by e, the last one
\* only when last holds
RECURSIVE JoinLines(_, _, _)
JoinLines(lines, e, last) ==
    IF lines = <<>> THEN <<>>
    ELSE lines[1] \o (IF Len(lines) > 1 \/ last THEN e ELSE <<>>)
         \o JoinLines(Tail(lines), e, last)

PlaylistsOf(n) ==
    { JoinLines(ls, e, last) : ls \in [1..n -> RewriteLines], e \in Endings,
                               last \in BOOLEAN }
Playlists == UNION { PlaylistsOf(n) : n \in 1..MaxLines }

\* servePlaylist for hlsPath on the upstream bytes text: the request, the
\* bytes sent, and the line of the playlist the request was read from
Served(hlsPath, text, token, depth, parent) ==
    [streamID |-> UUIDString(RewriteStream), token |-> token, hlsPath |-> hlsPath,
     text |-> text, at |-> now, depth |-> depth, parent |-> parent, seg |-> None, req |-> None,
     out |-> rewritePlaylistBytes(text, UUIDString(RewriteStream), token,
                                  BaseDir(hlsPath), now)]

\* The route GET /stream/{id}/hls/{path...} on the path of a URL
RouteHLS(path) ==
    IF Len(path) >= 4 /\ path[1] = "/stream/" /\ path[3] = "/hls/"
    THEN [ok |-> TRUE, id |-> <<path[2]>>, path |-> SubSeq(path, 4, Len(path))]
    ELSE [ok |-> FALSE, id |-> <<>>, path |-> <<>>]

\* A client starts watching: it asks for the root playlist
RewriteRoot(text, token) ==
    /\ rw = None
    /\ rw' = Served(PlaylistPath, text, token, 0, None)
    /\ UNCHANGED <<now, ticks, streamStatus, streamCache, coreVars, extVars, cat, boot, fault>>

\* The client asks for the playlist that line i of the last one names
RewriteFollow(i, text) ==
    /\ rw # None
    /\ rw.depth < MaxDepth
    /\ i \in 1..Len(ScanLines(rw.out))
    /\ LET r == RouteHLS(StripQuery(ScanLines(rw.out)[i]))
       IN  /\ r.ok
           /\ r.id = rw.streamID
           /\ IsPlaylistPath(r.path)
           /\ rw' = Served(r.path, text, rw.token, rw.depth + 1,
                           [hlsPath |-> rw.hlsPath, line |-> ScanLines(rw.text)[i]])
    /\ UNCHANGED <<now, ticks, streamStatus, streamCache, coreVars, extVars, cat, boot, fault>>

\* The client asks for the segment that line i of the last playlist names:
\* ServeHLS builds the upstream URL of the routed path
RewriteSegment(i) ==
    /\ rw # None
    /\ i \in 1..Len(ScanLines(rw.out))
    /\ LET r == RouteHLS(StripQuery(ScanLines(rw.out)[i]))
       IN  /\ r.ok
           /\ r.id = rw.streamID
           /\ ~IsPlaylistPath(r.path)
           /\ rw' = [rw EXCEPT !.seg =
                       [line |-> ScanLines(rw.text)[i], path |-> r.path,
                        url |-> UpstreamURL(GetStreamByID(RewriteStream), r.path)]]
    /\ UNCHANGED <<now, ticks, streamStatus, streamCache, coreVars, extVars, cat, boot, fault>>

\* url.ParseQuery on the text after the "?": the pairs, values still escaped
RECURSIVE ParseQuery(_)
ParseQuery(q) ==
    IF q = <<>> THEN <<>>
    ELSE LET amps == {i \in 1..Len(q) : q[i] = "&"}
             end == IF amps = {} THEN Len(q) + 1
                    ELSE CHOOSE i \in amps : \A j \in amps : i <= j
             part == SubSeq(q, 1, end - 1)
         IN  << [k |-> part[1], v |-> SubSeq(part, 3, Len(part))] >>
             \o ParseQuery(SubSeq(q, end + 1, Len(q)))

\* The text of a URL after its first "?"
QueryOf(line) == SubSeq(line, Len(StripQuery(line)) + 2, Len(line))

\* net/http's cleanPath, which ServeMux applies before it matches a route: a
\* slash that follows a slash is dropped
RECURSIVE cleanPath(_)
cleanPath(p) ==
    IF Len(p) < 2 THEN p
    ELSE IF p[1] \in {"/", "/hls/", "/stream/"} /\ p[2] = "/"
    THEN cleanPath(<<p[1]>> \o SubSeq(p, 3, Len(p)))
    ELSE <<p[1]>> \o cleanPath(Tail(p))

\* The client requests line i of the last playlist as it was sent.  ServeMux
\* answers a path that is not clean with a redirect to the clean one, which
\* the client follows with the same query; ServeHLS rebuilds the path from
\* the request it is given and verifies the signature against it.
RewriteRequest(i) ==
    /\ rw # None
    /\ i \in 1..Len(ScanLines(rw.text))
    /\ IsURLLine(ScanLines(rw.text)[i])
    /\ LET url == ScanLines(rw.out)[i]
           path == StripQuery(url)
           r == RouteHLS(cleanPath(path))
           rebuilt == IF r.ok THEN ProxyPath(r.id, r.path) ELSE <<>>
       IN  rw' = [rw EXCEPT !.req =
                     [line |-> ScanLines(rw.text)[i], url |-> url,
                      signedPath |-> path,
                      redirected |-> cleanPath(path) # path,
                      rebuilt |-> rebuilt,
                      verdict |-> IF r.ok
                                  THEN VerifyURLFromRequest(r.id, rebuilt,
                                           ParseQuery(QueryOf(url)), now)
                                  ELSE "unrouted"]]
    /\ UNCHANGED <<now, ticks, streamStatus, streamCache, coreVars, extVars, cat, boot, fault>>

NextRewrite ==
    \/ \E text \in Playlists, token \in GateTokens : RewriteRoot(text, token)
    \/ \E i \in 1..MaxLines, text \in PlaylistsOf(1) : RewriteFollow(i, text)
    \/ \E i \in 1..MaxLines : RewriteSegment(i)
    \/ \E i \in 1..MaxLines : RewriteRequest(i)

(***************************************************************************)
(* The catalog cache under concurrent requests: getStreamCached step by    *)
(* step, and status changes in the durable store                           *)
(***************************************************************************)
CatProcs == {"c1", "c2"}
CatMaxTicks == 3
MaxChanges == 1

\* The stream the requests are for
CatStream == "u1"

\* The life of a catalog cache entry
StreamCacheTTL == Seconds(60)

CatIdle == [pc |-> "idle", start |-> 0, stream |-> None, decision |-> None]

\* What a request was decided on: when it started, the status it used, the
\* status and the time of the last change in the durable store at that
\* moment, and for a record taken from the cache the time and its expiry
Decision(start, stream, hit, expiresAt) ==
    [start |-> start, status |-> stream.Status, current |-> streamStatus[CatStream],
     changedAt |-> cat.changedAt, hit |-> hit, at |-> now, expiresAt |-> expiresAt]

\* A playlist or segment request starts: getStreamCached loads the entry and
\* returns its stream when time.Now() is before its expiry, else deletes it
CatArrive(p) ==
    /\ cat.procs[p].pc = "idle"
    /\ LET entry == streamCache[CatStream]
       IN  IF Fresh(entry, now)
           THEN /\ cat' = [cat EXCEPT !.procs[p] =
                             [CatIdle EXCEPT !.start = now,
                                 !.decision = Decision(now, entry.stream, TRUE,
                                                       entry.expiresAt)]]
                /\ UNCHANGED streamCache
           ELSE /\ cat' = [cat EXCEPT !.procs[p] =
                             [CatIdle EXCEPT !.pc = "query", !.start = now]]
                /\ streamCache' = [streamCache EXCEPT ![CatStream] = None]
    /\ UNCHANGED <<now, ticks, streamStatus, coreVars, extVars, rw, boot, fault>>

\* getStreamCached: h.pgStore.GetStreamByID
CatQuery(p) ==
    /\ cat.procs[p].pc = "query"
    /\ cat' = [cat EXCEPT !.procs[p].pc = "store",
                          !.procs[p].stream = GetStreamByID(CatStream)]
    /\ UNCHANGED <<now, ticks, streamStatus, streamCache, coreVars, extVars, rw, boot, fault>>

\* getStreamCached: h.streamCache.Store with expiresAt 60 s after time.Now(),
\* and the return of the stream that was read
CatStore(p) ==
    /\ cat.procs[p].pc = "store"
    /\ LET stream == cat.procs[p].stream
       IN  /\ streamCache' = [streamCache EXCEPT ![CatStream] =
                                [stream |-> stream, expiresAt |-> now + StreamCacheTTL]]
           /\ cat' = [cat EXCEPT !.procs[p] =
                        [CatIdle EXCEPT !.start = cat.procs[p].start,
                            !.decision = Decision(cat.procs[p].start, stream, FALSE, 0)]]
    /\ UNCHANGED <<now, ticks, streamStatus, coreVars, extVars, rw, boot, fault>>

\* The status of the stream changes in the durable store
CatChange(st) ==
    /\ cat.changes < MaxChanges
    /\ streamStatus[CatStream] # st
    /\ streamStatus' = [streamStatus EXCEPT ![CatStream] = st]
    /\ cat' = [cat EXCEPT !.changedAt = now, !.changes = @ + 1]
    /\ UNCHANGED <<now, ticks, streamCache, coreVars, extVars, rw, boot, fault>>

\* No request is inside getStreamCached
CatQuiet == \A p \in CatProcs : cat.procs[p].pc = "idle"

\* Time passes: half a second, or, while no request is being handled, to
\* just after the 60 s that follow the last change
CatTick ==
    /\ Advance({now + 1} \cup (IF CatQuiet /\ cat.changedAt >= 0
                               THEN {cat.changedAt + StreamCacheTTL + 1} ELSE {}),
               CatMaxTicks)
    /\ UNCHANGED <<streamStatus, streamCache, cat, coreVars, extVars, rw, boot, fault>>

NextCatalog ==
    \/ \E p \in CatProcs : CatArrive(p)
    \/ \E p \in CatProcs : CatQuery(p)
    \/ \E p \in CatProcs : CatStore(p)
    \/ \E st \in StreamStatuses : CatChange(st)
    \/ CatTick

(***************************************************************************)
(* Startup: config.Load, config.LoadWithDefaults and main                  *)
(***************************************************************************)
\* The environment the server is started in: the variables Load validates
\* ("" for unset or empty), and whether the two stores can be reached
Environments ==
    [SIGNING_SECRET : {<<>>, SigningSecret},
     ADMIN_API_KEY : {"", "admin-key"},
     ENV : {"", "production"},
     BASE_URL : {"", "https://localhost", "https://tv.example"},
     RTMP_PUBLIC_HOST : {"", "tv.example"},
     SESSION_DURATION : {"", "1h", "soon"},
     postgres : BOOLEAN,
     redis : BOOLEAN]

\* getEnv: the value of the variable, the default when it is empty
getEnv(value, defaultValue) == IF value # "" THEN value ELSE defaultValue

\* getEnv of a variable whose value is modelled as a text of atoms
getEnvText(value, defaultValue) == IF value # <<>> THEN value ELSE defaultValue

\* time.ParseDuration fails
BadDuration(text) == text = "soon"

\* The secret LoadWithDefaults falls back to
DevSigningSecret == <<"dev-signing-secret-change-in-production">>

\* config.Load: the configuration, or the error of the first check that fails
Load(env) ==
    LET cfg == [SigningSecret |-> getEnvText(env.SIGNING_SECRET, <<>>),
                AdminAPIKey |-> getEnv(env.ADMIN_API_KEY, ""),
                BaseURL |-> getEnv(env.BASE_URL, "http://localhost:3000"),
                RTMPPublicHost |-> getEnv(env.RTMP_PUBLIC_HOST, "localhost")]
        localhost == cfg.BaseURL \in {"http://localhost:3000", "https://localhost"}
        err == IF BadDuration(getEnv(env.SESSION_DURATION, "24h"))
               THEN "invalid SESSION_DURATION"
               ELSE IF cfg.SigningSecret = <<>> THEN "SIGNING_SECRET is required"
               ELSE IF cfg.AdminAPIKey = "" THEN "ADMIN_API_KEY is required"
               ELSE IF env.ENV = "production" /\ localhost
                    THEN "BASE_URL contains 'localhost' but ENV=production"
               ELSE IF env.ENV = "production" /\ cfg.RTMPPublicHost = "localhost"
                    THEN "RTMP_PUBLIC_HOST is 'localhost' but ENV=production"
               ELSE ""
    IN  [cfg |-> cfg, err |-> err]

\* config.LoadWithDefaults: what Load gives, and the development
\* configuration when Load fails
LoadWithDefaults(env) ==
    LET loaded == Load(env)
    IN  IF loaded.err # ""
        THEN [SigningSecret |-> DevSigningSecret, AdminAPIKey |-> "dev-admin-key",
              BaseURL |-> getEnv(env.BASE_URL, "http://localhost:3000"),
              RTMPPublicHost |-> getEnv(env.RTMP_PUBLIC_HOST, "localhost")]
        ELSE loaded.cfg

\* main up to ListenAndServe: the configuration, then the two stores, whose
\* failure is fatal; the handlers get a signer of cfg.SigningSecret
Startup(env) ==
    /\ boot = None
    /\ LET loaded == Load(env)
           cfg == IF loaded.err # "" THEN LoadWithDefaults(env) ELSE loaded.cfg
       IN  boot' = [env |-> env, cfg |-> cfg, warned |-> loaded.err,
                    serving |-> env.postgres /\ env.redis, secret |-> <<>>]
    /\ UNCHANGED <<now, ticks, streamStatus, streamCache, coreVars, extVars, rw, cat, fault>>

\* A handler signs or verifies a URL: the key of the HMAC is the secret its
\* signer was made with
BootSign ==
    /\ boot # None
    /\ boot.serving
    /\ boot.secret = <<>>
    /\ boot' = [boot EXCEPT !.secret = boot.cfg.SigningSecret]
    /\ UNCHANGED <<now, ticks, streamStatus, streamCache, coreVars, extVars, rw, cat, fault>>

NextStartup ==
    \/ \E env \in Environments : Startup(env)
    \/ BootSign

(***************************************************************************)
(* Store failures: the handlers when an operation of the durable store or  *)
(* of the session store returns an error                                   *)
(***************************************************************************)
\* The store that is failing: the durable store, the session store, or none
Stores == {"none", "postgres", "redis"}

faultRest == <<signed, verified, proc, flight, fetchLog, overlap, accepted,
               presenceVars, rw, cat, boot, extVars>>

\* What a request was answered while a store was failing; failed tells
\* whether the handler called the failing store
Faulted(endpoint, down, failed, status, body) ==
    [endpoint |-> endpoint, down |-> down, failed |-> failed, status |-> status,
     body |-> body]

\* StreamHandler.ServeHLS at time now while the store down is failing.  The
\* durable store is asked on a miss of the catalog cache, and its error is
\* answered like an unknown stream; the session store is asked by the
\* playlist gate, and its error is answered like a missing session.
FaultyServeHLS(req, down, reply) ==
    LET parsed == UUIDParse(req.streamID)
        normal == ServeHLSResult(req, sessions, reply)
        noSessions == [t \in DOMAIN sessions |-> None]
        gated == ServeHLSResult(req, noSessions, reply)
    IN  IF down = "postgres" /\ parsed.ok /\ ~Fresh(streamCache[parsed.uuid], now)
        THEN [failed |-> TRUE,
              r |-> Refuse(404, "Stream not found",
                           [streamCache EXCEPT ![parsed.uuid] = None])]
        ELSE IF down = "redis" /\ gated.status = 401
        THEN [failed |-> TRUE, r |-> gated]
        ELSE [failed |-> FALSE, r |-> normal]

\* GET /stream/{id}/hls/{path}?{query} while the store down is failing
FaultHLS(id, hlsPath, kind, down) ==
    /\ LET req == [short |-> FALSE, streamID |-> id, hlsPath |-> hlsPath,
                   query |-> GateQuery(kind, id, hlsPath, now)]
           f == FaultyServeHLS(req, down, UpstreamReply(hlsPath, TRUE))
       IN  /\ fault' = Faulted(IF IsPlaylistPath(hlsPath) THEN "playlist" ELSE "segment",
                               down, f.failed, f.r.status, f.r.body)
           /\ streamCache' = f.r.streamCache
           /\ playlistCache' = f.r.playlistCache
           /\ segmentCache' = f.r.segmentCache
    /\ UNCHANGED <<now, ticks, streamStatus, sessions, devices, sessionTTL, payVars,
                   hlsReq, hlsResp, hb, faultRest>>

\* Heartbeat when GetSession returns an error
FaultHbSession(h) ==
    /\ hb[h].pc = "session"
    /\ hb' = [hb EXCEPT ![h].pc = "idle", ![h].status = 401,
                        ![h].body = HeartbeatBody(401, hb[h].streamID, hb[h].token, now)]
    /\ fault' = Faulted("heartbeat", "redis", TRUE, 401,
                        HeartbeatBody(401, hb[h].streamID, hb[h].token, now))
    /\ UNCHANGED <<now, ticks, streamStatus, streamCache, sessions, devices, sessionTTL,
                   payVars, playlistCache, segmentCache, hlsReq, hlsResp, faultRest>>

\* RecoverToken when CheckRecoveryRateLimit returns an error: the error is
\* logged, allowed is false and the request is answered as limited
FaultRecoverArrive(r, email) ==
    /\ rec[r].pc = "idle"
    /\ recResp' = Response(email, 429, 0)
    /\ fault' = Faulted("recovery", "redis", TRUE, 429,
                        APIError("Too many recovery attempts. Please try again later."))
    /\ UNCHANGED <<now, ticks, streamStatus, streamCache, sessions, devices, sessionTTL,
                   rateLimit, payments, whitelist, minted, cb, rec, retired,
                   playlistCache, segmentCache, hlsReq, hlsResp, hb, faultRest>>

\* RecoverToken when GetStreamBySlug returns an error: the answer is written,
\* and the handler then sleeps out its 500 ms
FaultRecoverLookup(r) ==
    /\ rec[r].pc = "lookup"
    /\ rec' = [rec EXCEPT ![r].pc = "respond", ![r].status = 404]
    /\ fault' = Faulted("recovery", "postgres", TRUE, 404,
                        APIError("No active purchase found for this email."))
    /\ UNCHANGED <<now, ticks, streamStatus, streamCache, sessions, devices, sessionTTL,
                   rateLimit, payments, whitelist, minted, cb, retired, recResp,
                   playlistCache, segmentCache, hlsReq, hlsResp, hb, faultRest>>

NextFaults ==
    \/ \E t \in HbTokens : CreateSession(t, PaidStream(t))
    \/ \E u \in DBStreams : UpdateStreamStatus(u, "live")
    \/ \E hlsPath \in HLSPaths, kind \in {"t1", "forged"}, down \in Stores :
          FaultHLS(<<"s1">>, hlsPath, kind, down)
    \/ \E t \in HbTokens : HbArrive("h1", t, <<"s1">>, "")
    \/ FaultHbSession("h1")
    \/ \E e \in Customers : RecoverArrive("v1", e, TRUE)
    \/ \E e \in Customers : FaultRecoverArrive("v1", e)
    \/ FaultRecoverLookup("v1")

(***************************************************************************)
(* The playlist cache shared by the holders of two tokens of one stream    *)
(***************************************************************************)
\* ServeHLS handles the request; when servePlaylist fetched and stored the
\* playlist, the token of the request it did so for is noted
ShareServe(found) ==
    /\ hlsReq # None
    /\ LET r == ServeHLSResult(hlsReq, sessions, UpstreamReply(hlsReq.hlsPath, found))
           stored == r.fetched /\ r.status = 200 /\ IsPlaylistPath(hlsReq.hlsPath)
       IN  /\ hlsResp' = [req |-> hlsReq, status |-> r.status, body |-> r.body,
                          ctype |-> r.ctype, fetched |-> r.fetched]
           /\ streamCache' = r.streamCache
           /\ playlistCache' = r.playlistCache
           /\ segmentCache' = r.segmentCache
           /\ share' = IF stored
                       THEN [k \in UpstreamURLs |->
                               IF r.playlistCache[k] # playlistCache[k]
                               THEN QueryGet(hlsReq.query, "token") ELSE share[k]]
                       ELSE share
    /\ hlsReq' = None
    /\ UNCHANGED <<now, ticks, gateEnv, signed, verified, proc, flight, fetchLog,
                   overlap, hb, accepted, payVars, presenceVars, rw, cat, boot, fault,
                   pt, page, gone>>

NextShare ==
    \/ \E p \in HLSPaths, k \in {"t1", "t2", "forged"} : HLSArrive(<<"s1">>, p, k)
    \/ \E found \in BOOLEAN : ShareServe(found)
    \/ HLSDone
    \/ \E u \in DBStreams : UpdateStreamStatus(u, "live")
    \/ \E t \in GateTokens : CreateSession(t, <<"s1">>)
    \/ \E t \in GateTokens : DeleteSession(t)
    \/ GateTick

(***************************************************************************)
(* internal/paytrail: CalculateSignature and VerifySignature applied to    *)
(* bounded parameter maps                                                  *)
(***************************************************************************)
\* The keys a map may hold, in the order sort.Strings gives them: bytewise,
\* an upper-case letter before every lower-case one
PtKeys == <<"Checkout-Status", "checkout-amount", "checkout-status", "other">>
PtKeySet == {PtKeys[i] : i \in 1..Len(PtKeys)}
PtValues == {"ok", "fail"}
PtSecrets == { <<"k">>, <<"q">> }

\* A map[string]string over PtKeySet: NoEntry marks a key the map lacks
NoEntry == "(none)"
PtMaps == [PtKeySet -> PtValues \cup {NoEntry}]

\* strings.ToLower
ToLower(k) == IF k = "Checkout-Status" THEN "checkout-status" ELSE k

\* strings.HasPrefix(strings.ToLower(k), "checkout-")
IsCheckoutKey(k) == ToLower(k) \in {"checkout-amount", "checkout-status"}

\* The checkout-* keys of the map, sorted
SortedCheckoutKeys(m) ==
    SelectSeq(PtKeys, LAMBDA k : m[k] # NoEntry /\ IsCheckoutKey(k))

\* strings.Join(parts, "\n")
RECURSIVE JoinParts(_)
JoinParts(parts) ==
    IF parts = <<>> THEN <<>>
    ELSE IF Len(parts) = 1 THEN parts[1]
    ELSE parts[1] \o <<"\n">> \o JoinParts(Tail(parts))

\* paytrail.CalculateSignature
CalculateSignature(secret, headers, body) ==
    LET keys == SortedCheckoutKeys(headers)
        parts == [i \in 1..Len(keys) |-> <<ToLower(keys[i]), ":", headers[keys[i]]>>]
        joined == JoinParts(parts)
        payload == IF body # <<>> THEN joined \o <<"\n">> \o body ELSE joined
    IN  HexEncode(HmacSum(secret, payload))

\* paytrail.VerifySignature
VerifySignature(secret, signature, params) ==
    LET keys == SortedCheckoutKeys(params)
        parts == [i \in 1..Len(keys) |-> <<keys[i], ":", params[keys[i]]>>]
        payload == JoinParts(parts)
        expected == HexEncode(HmacSum(secret, payload))
    IN  expected = signature

\* What the Paytrail signature leaves alone
ptFrame == <<now, ticks, streamStatus, streamCache, coreVars, rw, cat, boot, fault>>

\* The signature of a parameter map is calculated, with an empty body
PtCalculate(secret, params) ==
    /\ pt' = [secret |-> secret, params |-> params,
              signature |-> CalculateSignature(secret, params, <<>>),
              presented |-> None]
    /\ UNCHANGED <<ptFrame, share, page, gone>>

\* The signature comes back with the parameters it was calculated for
PtVerifySame ==
    /\ pt # None /\ pt.presented = None
    /\ pt' = [pt EXCEPT !.presented =
                 [kind |-> "same", params |-> pt.params, signature |-> pt.signature,
                  ok |-> VerifySignature(pt.secret, pt.signature, pt.params)]]
    /\ UNCHANGED <<ptFrame, share, page, gone>>

\* The signature comes back with the value of one checkout-* parameter changed
PtVerifyTampered(k, v) ==
    /\ pt # None /\ pt.presented = None
    /\ IsCheckoutKey(k) /\ pt.params[k] # NoEntry /\ pt.params[k] # v
    /\ LET tampered == [pt.params EXCEPT ![k] = v]
       IN  pt' = [pt EXCEPT !.presented =
                     [kind |-> "tampered", params |-> tampered,
                      signature |-> pt.signature,
                      ok |-> VerifySignature(pt.secret, pt.signature, tampered)]]
    /\ UNCHANGED <<ptFrame, share, page, gone>>

\* Another signature string comes with the parameters
PtVerifyOther(signature) ==
    /\ pt # None /\ pt.presented = None
    /\ signature # pt.signature
    /\ pt' = [pt EXCEPT !.presented =
                 [kind |-> "other", params |-> pt.params, signature |-> signature,
                  ok |-> VerifySignature(pt.secret, signature, pt.params)]]
    /\ UNCHANGED <<ptFrame, share, page, gone>>

NextPaytrail ==
    \/ \E secret \in PtSecrets, params \in PtMaps : PtCalculate(secret, params)
    \/ PtVerifySame
    \/ \E k \in PtKeySet, v \in PtValues : PtVerifyTampered(k, v)
    \/ \E secret \in PtSecrets, params \in PtMaps :
          PtVerifyOther(CalculateSignature(secret, params, <<>>))
    \/ PtVerifyOther(<<"wrong-signature">>)

(***************************************************************************)
(* The handlers that issue signed URLs: PageHandler.Watch, GetPlaylistURL, *)
(* Heartbeat and ServeHLS, with tokens bought for two streams              *)
(***************************************************************************)
Slugs == {"slug1", "slug2"}

\* PostgresStore.GetStreamBySlug: slug1 is the slug of stream u1
GetStreamBySlug(slug) == IF slug = "slug1" THEN GetStreamByID("u1") ELSE None

\* PostgresStore.GetPaymentByAccessToken
GetPaymentByAccessToken(token) ==
    LET ids == {i \in 1..Len(payments) : payments[i].AccessToken = token}
    IN  IF ids = {} THEN None ELSE payments[CHOOSE i \in ids : TRUE]

\* Payment.IsTokenValid at time t
IsTokenValid(payment, t) ==
    /\ payment.Status = "completed"
    /\ payment.TokenExpiry # -1
    /\ t < payment.TokenExpiry

\* A page that takes a payment of any stream
PaymentForAnyStream(payment, stream) == TRUE

\* "Verify token is for this stream"
PaymentForStream(payment, stream) == payment.StreamID = stream.ID

\* BaseURL + SignURL(stream.ID.String(), token, "/stream/{id}/hls/stream.m3u8")
SignedPlaylistURL(stream, token, t) ==
    BaseURL \o URLText(SignURL(UUIDString(stream.ID), token,
                               ProxyPath(UUIDString(stream.ID), PlaylistPath), t))

\* What Watch and GetPlaylistURL answer once they hold a token: missing is
\* the status for a stream that does not exist, invalid that for a token
\* without a valid payment
PlaylistURLFor(slug, token, missing, invalid, t) ==
    LET stream == GetStreamBySlug(slug)
        payment == GetPaymentByAccessToken(token)
    IN  IF stream = None THEN [status |-> missing, url |-> <<>>]
        ELSE IF payment = None \/ ~IsTokenValid(payment, t)
        THEN [status |-> invalid, url |-> <<>>]
        ELSE IF ~PaymentForStream(payment, stream) THEN [status |-> 403, url |-> <<>>]
        ELSE [status |-> 200, url |-> SignedPlaylistURL(stream, token, t)]

issueFrame == <<now, ticks, streamStatus, streamCache, coreVars, rw, cat, boot, fault,
                share, pt, gone>>

\* PageHandler.Watch: GET /watch/{slug} with a token in the query or the
\* cookie (<<>> for neither)
Watch(slug, token) ==
    /\ LET stream == GetStreamBySlug(slug)
           r == IF stream # None /\ token = <<>>
                THEN [status |-> 302, url |-> <<>>]
                ELSE PlaylistURLFor(slug, token, 404, 302, now)
       IN  page' = [handler |-> "Watch", slug |-> slug, token |-> token,
                    status |-> r.status, url |-> r.url]
    /\ UNCHANGED issueFrame

\* StreamHandler.GetPlaylistURL: GET /api/stream/{slug}/playlist with the
\* token of the cookie
GetPlaylistURL(slug, token) ==
    /\ LET r == IF token = <<>> THEN [status |-> 401, url |-> <<>>]
                ELSE PlaylistURLFor(slug, token, 404, 401, now)
       IN  page' = [handler |-> "GetPlaylistURL", slug |-> slug, token |-> token,
                    status |-> r.status, url |-> r.url]
    /\ UNCHANGED issueFrame

\* A completed purchase: HandleSuccessCallback run to its end for a payment
\* of the stream the token is sold for
Purchase(token) ==
    /\ GetPaymentByAccessToken(token) = None
    /\ payments' = Append(payments,
           [Payment("a", PriceCents, "completed", FormatInt(Len(payments) + 1),
                    token, now + SessionDuration, now)
               EXCEPT !.StreamID = UUIDParse(PaidStream(token)).uuid])
    /\ sessions' = [sessions EXCEPT ![token] = Session(token, PaidStream(token))]
    /\ sessionTTL' = [sessionTTL EXCEPT ![token] = now + SessionDuration]
    /\ UNCHANGED <<now, ticks, devices, rateLimit, whitelist, minted, cb, rec, retired,
                   recResp, payFrame>>

\* One client at a time asks for a page, a playlist or sends a heartbeat,
\* while purchases are made and sessions are deleted
NoRequest == Idle /\ HbIdle("h1")

IssueWatch(slug, token) == NoRequest /\ Watch(slug, token)
IssueGetPlaylistURL(slug, token) == NoRequest /\ GetPlaylistURL(slug, token)
IssueHLS(id, kind) == NoRequest /\ HLSArrive(id, PlaylistPath, kind)
IssueHeartbeat(token, deviceID) == NoRequest /\ HbArrive("h1", token, <<"s1">>, deviceID)

NextIssue ==
    \/ \E t \in GateTokens : Purchase(t)
    \/ \E t \in GateTokens : DeleteSession(t)
    \/ \E u \in DBStreams : UpdateStreamStatus(u, "live")
    \/ \E slug \in Slugs, t \in GateTokens \cup {<<>>} : IssueWatch(slug, t)
    \/ \E slug \in Slugs, t \in GateTokens \cup {<<>>} : IssueGetPlaylistURL(slug, t)
    \/ \E k \in {"t1", "t2"} : IssueHLS(<<"s1">>, k)
    \/ ServeHLS(TRUE)
    \/ HLSDone
    \/ \E t \in GateTokens, d \in {"", "d1"} : IssueHeartbeat(t, d)
    \/ HbSession("h1")
    \/ HbGetDevice("h1")
    \/ HbSetDevice("h1")

(***************************************************************************)
(* serveSegment with clients that disconnect.  The handler's goroutine     *)
(* runs on when its client is gone, and h.client.Get carries no request    *)
(* context: the GET ends with the upstream's answer or, after the client's *)
(* Timeout of 30 s, with an error                                          *)
(***************************************************************************)
goneFrame == <<now, ticks, streamStatus, streamCache, coreVars, rw, cat, boot, fault,
               share, pt, page>>

\* The requests inside serveSegment
Serving == {q \in FetchProcs : proc[q].pc # "idle"}

\* A client that is connected asks for the segment, within the time its cache
\* entry lives; each request leads to one upstream fetch at most
CoalesceArrive(p) ==
    /\ p \notin gone
    /\ TotalFetches + Cardinality(Serving) < MaxFetches
    /\ FetchArrive(p, SegmentURL)

\* The client of a request that is being served disconnects: nothing of the
\* handler's state changes
ClientDisconnect(p) ==
    /\ p \in Serving
    /\ p \notin gone
    /\ gone' = gone \cup {p}
    /\ UNCHANGED goneFrame

\* A step of a handler's goroutine
CoalesceStep(p) ==
    \/ FetchDo(p)
    \/ FetchInner(p)
    \/ \E kind \in FetchReplyKinds : FetchReturn(p, kind)

NextCoalesce ==
    \/ \E p \in FetchProcs : CoalesceArrive(p)
    \/ \E p \in FetchProcs : ClientDisconnect(p)
    \/ \E p \in FetchProcs : FetchDo(p)
    \/ \E p \in FetchProcs : FetchInner(p)
    \/ \E p \in FetchProcs, kind \in FetchReplyKinds : FetchReturn(p, kind)

(***************************************************************************)
(* Specifications                                                          *)
(***************************************************************************)
vars == <<now, ticks, signed, verified, streamStatus, streamCache, sessions,
          devices, sessionTTL, payVars, playlistCache, segmentCache, hlsReq, hlsResp, proc, flight,
          fetchLog, overlap, hb, accepted, presenceVars, auxVars>>

\* The clock starts one second after the epoch
InitClock == now = Seconds(1) /\ ticks = 0

InitGate ==
    /\ streamStatus = [u \in DBStreams |-> "scheduled"]
    /\ streamCache = [u \in UUIDs |-> None]
    /\ sessions = [t \in AccessTokens |-> None]
    /\ devices = [t \in AccessTokens |-> None]
    /\ sessionTTL = [t \in AccessTokens |-> 0]
    /\ playlistCache = [k \in UpstreamURLs |-> None]
    /\ segmentCache = [k \in UpstreamURLs |-> None]
    /\ hlsReq = None
    /\ hlsResp = None

InitAux ==
    /\ activeSessions = [u \in UUIDs |-> [t \in AccessTokens |-> -1]]
    /\ viewers = [req |-> [h \in HbProcs |-> None], count |-> None]
    /\ rw = None
    /\ cat = [procs |-> [p \in CatProcs |-> CatIdle], changedAt |-> -1, changes |-> 0]
    /\ boot = None
    /\ fault = None
    /\ share = [k \in UpstreamURLs |-> <<>>]
    /\ pt = None
    /\ page = None
    /\ gone = {}

Init ==
    /\ InitClock /\ InitSigner /\ InitGate /\ InitFetch /\ InitDevice /\ InitPayment
    /\ InitAux

SpecSigner == Init /\ [][NextSigner]_vars

Spec == Init /\ [][NextGate]_vars

SpecFetch == Init /\ [][NextFetch]_vars

SpecDevice == Init /\ [][NextDevice]_vars

SpecPresence == Init /\ [][NextPresence]_vars

SpecRewrite == Init /\ [][NextRewrite]_vars

SpecCatalog == Init /\ [][NextCatalog]_vars

SpecStartup == Init /\ [][NextStartup]_vars

SpecFaults == Init /\ [][NextFaults]_vars

SpecPayment == Init /\ [][NextPayment]_vars

SpecRecovery == Init /\ [][NextRecovery]_vars

SpecShare == Init /\ [][NextShare]_vars

SpecPaytrail == Init /\ [][NextPaytrail]_vars

SpecIssue == Init /\ [][NextIssue]_vars

SpecHeartbeat == Init /\ [][NextHeartbeat]_vars

\* Every handler runs to its end, the clock runs, and d2 keeps sending
FairTakeover ==
    /\ WF_vars(\E h \in HbProcs : HbSession(h) \/ HbGetDevice(h) \/ HbSetDevice(h))
    /\ WF_vars(ChallengerArrive)
    /\ WF_vars(TakeoverTick)

SpecTakeover == Init /\ [][NextTakeover]_vars /\ FairTakeover

\* Every goroutine is scheduled, and a GET that was sent returns: the client
\* has a Timeout
FairCoalesce == \A p \in FetchProcs : WF_vars(CoalesceStep(p))

SpecCoalesce == Init /\ [][NextCoalesce]_vars /\ FairCoalesce
SpecCallbacks == Init /\ [][NextCallbacks]_vars

(***************************************************************************)
(* C2.  The parameters SignURL produced, parsed back and given to          *)
(* VerifyURL with the same stream id and path, verify at every time whose  *)
(* Unix second is at most the expires second, the Unix second of signing   *)
(* time + validity, and are rejected as expired at every later time.       *)
(***************************************************************************)
SignRoundTrip ==
    (verified # None /\ verified.issued) =>
        verified.result =
            IF Unix(now) <= Unix(signed.at + SignatureValidity)
            THEN "ok" ELSE "expired"

\* An issued URL whose token needed escaping is accepted in the expires
\* second itself
SignRoundTripWitness ==
    /\ verified # None /\ verified.issued
    /\ verified.result = "ok"
    /\ Unix(now) = Unix(signed.at + SignatureValidity)
    /\ \E i \in 1..Len(signed.token) : signed.token[i] \in PctChars

(***************************************************************************)
(* C3.  VerifyURL accepts (stream_id, token, path, expires, sig) only when *)
(* sig is the MAC of exactly that tuple: whatever is presented with the    *)
(* signature issued for a tuple is accepted only if it is that tuple.      *)
(***************************************************************************)
SignatureBinding ==
    (verified # None /\ verified.result = "ok" /\ verified.params.Sig = IssuedSig) =>
        /\ verified.streamID = signed.streamID
        /\ verified.params.Token = signed.token
        /\ verified.path = signed.path
        /\ verified.params.Expires = IssuedExpires

(***************************************************************************)
(* C1.  A playlist request for a stream resolved as live, with a valid     *)
(* unexpired signature, is answered 401 when the store holds no session    *)
(* for the token, 403 when the session's stream id is not the requested    *)
(* one, and is served exactly when a session for the token and the stream  *)
(* exists.                                                                 *)
(***************************************************************************)
\* The answered request came through the id, stream, status and signature
\* gates
PassedSignature ==
    /\ hlsResp # None
    /\ ~hlsResp.req.short
    /\ UUIDParse(hlsResp.req.streamID).ok
    /\ LET u == UUIDParse(hlsResp.req.streamID).uuid
       IN  streamCache[u] # None /\ streamCache[u].stream.Status = "live"
    /\ VerifyURLFromRequest(hlsResp.req.streamID,
           ProxyPath(hlsResp.req.streamID, hlsResp.req.hlsPath),
           hlsResp.req.query, now) = "ok"

PlaylistSessionGate ==
    (PassedSignature /\ IsPlaylistPath(hlsResp.req.hlsPath)) =>
        LET session == GetSession(sessions, QueryGet(hlsResp.req.query, "token"))
        IN  /\ session = None => hlsResp.status = 401
            /\ (session # None /\ session.StreamID # hlsResp.req.streamID)
                  => hlsResp.status = 403
            /\ hlsResp.status \in {200, 502}
                  <=> (session # None /\ session.StreamID = hlsResp.req.streamID)

\* A playlist request signed for a token whose session is for another stream
\* has been refused
PlaylistSessionGateWitness ==
    /\ PassedSignature /\ IsPlaylistPath(hlsResp.req.hlsPath)
    /\ hlsResp.status = 403
    /\ GetSession(sessions, QueryGet(hlsResp.req.query, "token")) # None

(***************************************************************************)
(* C4.  The response to a segment request, the upstream traffic it causes  *)
(* and the caches it leaves are the same whatever the session store holds: *)
(* the handler run on the same request in the same state but with any      *)
(* other session store gives the same result.  The device bindings are     *)
(* not an input of the handler at all.                                     *)
(***************************************************************************)
SegmentIgnoresSessions ==
    (hlsReq # None /\ ~hlsReq.short /\ ~IsPlaylistPath(hlsReq.hlsPath)) =>
        \A store \in SessionStores, found \in BOOLEAN :
            ServeHLSResult(hlsReq, store, UpstreamReply(hlsReq.hlsPath, found))
              = ServeHLSResult(hlsReq, sessions, UpstreamReply(hlsReq.hlsPath, found))

\* A segment has been served for a token that has no session
SegmentIgnoresSessionsWitness ==
    /\ PassedSignature /\ ~IsPlaylistPath(hlsResp.req.hlsPath)
    /\ hlsResp.status = 200
    /\ GetSession(sessions, QueryGet(hlsResp.req.query, "token")) = None

(***************************************************************************)
(* C5.  A request that caused an upstream fetch had a parsable stream id,  *)
(* a known stream whose record, as resolved through the catalog cache, is  *)
(* live, a valid unexpired signature and, for a playlist, a session for    *)
(* its token and stream.                                                   *)
(***************************************************************************)
FetchOnlyPastGates ==
    (hlsResp # None /\ hlsResp.fetched) =>
        /\ PassedSignature
        /\ IsPlaylistPath(hlsResp.req.hlsPath) =>
              LET session == GetSession(sessions, QueryGet(hlsResp.req.query, "token"))
              IN  session # None /\ session.StreamID = hlsResp.req.streamID

\* A playlist has been fetched from the upstream and served
FetchOnlyPastGatesWitness ==
    /\ hlsResp # None /\ hlsResp.fetched
    /\ hlsResp.status = 200
    /\ IsPlaylistPath(hlsResp.req.hlsPath)

(***************************************************************************)
(* The fetches behind the responses of the fetch path                      *)
(***************************************************************************)
UpstreamOK(f) == f.done /\ ~f.err /\ f.status = 200

\* The fetches of url that returned these bytes
FetchesOf(url, data) ==
    {n \in 1..Len(fetchLog[url]) :
        UpstreamOK(fetchLog[url][n]) /\ FetchBody(url, n) = data}

Answered(p) == proc[p].pc = "idle" /\ proc[p].resp # None

(***************************************************************************)
(* C6.  Callers that requested the same URL at the same time and found no  *)
(* fresh entry receive the same bytes and content type, whenever what they *)
(* are given came from fetches whose results were stored and that are less *)
(* than the TTL apart.                                                     *)
(***************************************************************************)
CoalescedFetch ==
    \A pr \in overlap : \A p \in pr, q \in pr :
        (/\ p # q
         /\ Answered(p) /\ Answered(q)
         /\ proc[p].url = proc[q].url
         /\ proc[p].resp.missed /\ proc[q].resp.missed
         /\ proc[p].resp.status = 200 /\ proc[q].resp.status = 200
         /\ \A m \in FetchesOf(proc[p].url, proc[p].resp.data),
               n \in FetchesOf(proc[q].url, proc[q].resp.data) :
                 /\ fetchLog[proc[p].url][m].stored
                 /\ fetchLog[proc[p].url][n].stored
                 /\ m < n => fetchLog[proc[p].url][n].issuedAt
                               < fetchLog[proc[p].url][m].doneAt + CacheTTL(proc[p].url)
                 /\ n < m => fetchLog[proc[p].url][m].issuedAt
                               < fetchLog[proc[p].url][n].doneAt + CacheTTL(proc[p].url))
        => /\ proc[p].resp.data = proc[q].resp.data
           /\ proc[p].resp.ctype = proc[q].resp.ctype

(***************************************************************************)
(* C7.  After a fetch of a key whose result was stored, no fetch of that   *)
(* key is issued before the TTL since the completion of the former has     *)
(* elapsed.                                                                *)
(***************************************************************************)
NoRefetchWithinTTL ==
    \A url \in UpstreamURLs :
        \A m \in 1..Len(fetchLog[url]), n \in 1..Len(fetchLog[url]) :
            (m < n /\ fetchLog[url][m].done /\ fetchLog[url][m].stored)
              => fetchLog[url][n].issuedAt >= fetchLog[url][m].doneAt + CacheTTL(url)

(***************************************************************************)
(* C8.  A caller given the result of a fetch is answered 502 exactly when  *)
(* the fetch failed or returned a status other than 200; a failed fetch    *)
(* changes no cache entry, every entry holds the bytes of a fetch that     *)
(* succeeded, and after a failed fetch the key has no fresh entry, so the  *)
(* next request fetches again.                                             *)
(***************************************************************************)
FailurePropagates ==
    /\ \A p \in FetchProcs :
          (Answered(p) /\ proc[p].resp.fetchNo > 0) =>
              LET f == fetchLog[proc[p].url][proc[p].resp.fetchNo]
              IN  f.done /\ (proc[p].resp.status = 502 <=> ~UpstreamOK(f))
    /\ \A url \in UpstreamURLs :
          /\ \A n \in 1..Len(fetchLog[url]) :
                (fetchLog[url][n].done /\ ~UpstreamOK(fetchLog[url][n]))
                   => ~fetchLog[url][n].stored
          /\ CacheOf(url) # None => FetchesOf(url, EntryData(url, CacheOf(url))) # {}
          /\ (fetchLog[url] # <<>> /\ fetchLog[url][Len(fetchLog[url])].done
                /\ ~UpstreamOK(fetchLog[url][Len(fetchLog[url])]))
                => ~Fresh(CacheOf(url), now)

\* The leader of a failed fetch and a caller that waited on it have both been
\* answered 502, and the key has no entry
FailurePropagatesWitness ==
    \E p \in FetchProcs, q \in FetchProcs :
        /\ p # q /\ Answered(p) /\ Answered(q)
        /\ proc[p].url = proc[q].url
        /\ proc[p].resp.fetchNo > 0 /\ proc[p].resp.fetchNo = proc[q].resp.fetchNo
        /\ proc[p].resp.status = 502 /\ proc[q].resp.status = 502
        /\ CacheOf(proc[p].url) = None

(***************************************************************************)
(* C9.  A successfully fetched segment is stored if and only if its size   *)
(* is below the 5 MiB ceiling (a segment of exactly 5 MiB is not stored);  *)
(* stored or not, it is delivered to every caller of that fetch.           *)
(***************************************************************************)
SegmentDelivered ==
    \A p \in FetchProcs :
        (Answered(p) /\ proc[p].url = SegmentURL /\ proc[p].resp.fetchNo > 0
           /\ UpstreamOK(fetchLog[SegmentURL][proc[p].resp.fetchNo]))
          => /\ proc[p].resp.status = 200
             /\ proc[p].resp.data = FetchBody(SegmentURL, proc[p].resp.fetchNo)

SegmentStoredBelowCeiling ==
    /\ \A n \in 1..Len(fetchLog[SegmentURL]) :
          UpstreamOK(fetchLog[SegmentURL][n]) =>
              (fetchLog[SegmentURL][n].stored
                 <=> fetchLog[SegmentURL][n].size < 5 * 1024 * 1024)
    /\ SegmentDelivered

\* C9 as stated: a segment of exactly 5 MiB is stored
SegmentStoredUpToCeiling ==
    /\ \A n \in 1..Len(fetchLog[SegmentURL]) :
          UpstreamOK(fetchLog[SegmentURL][n]) =>
              (fetchLog[SegmentURL][n].stored
                 <=> fetchLog[SegmentURL][n].size <= 5 * 1024 * 1024)
    /\ SegmentDelivered

\* A segment of exactly 5 MiB was fetched, given to its leader and to a
\* caller that waited on the fetch, and not stored
SegmentStoredBelowCeilingWitness ==
    \E p \in FetchProcs, q \in FetchProcs :
        /\ p # q /\ Answered(p) /\ Answered(q)
        /\ proc[p].url = SegmentURL /\ proc[q].url = SegmentURL
        /\ proc[p].resp.fetchNo > 0 /\ proc[p].resp.fetchNo = proc[q].resp.fetchNo
        /\ proc[p].resp.status = 200 /\ proc[q].resp.status = 200
        /\ fetchLog[SegmentURL][proc[p].resp.fetchNo].size = 5 * 1024 * 1024
        /\ ~fetchLog[SegmentURL][proc[p].resp.fetchNo].stored

(***************************************************************************)
(* C10.  For any token, two different device ids are never both accepted   *)
(* within heartbeat_timeout of each other.                                 *)
(***************************************************************************)
OneDevicePerTimeout ==
    \A t \in GateTokens : \A d1 \in DeviceIDs, d2 \in DeviceIDs :
        (d1 # d2 /\ accepted[t][d1] >= 0 /\ accepted[t][d2] >= 0 /\
         accepted[t][d1] <= accepted[t][d2])
          => accepted[t][d2] - accepted[t][d1] > HeartbeatTimeout

(***************************************************************************)
(* C11.  A heartbeat from device B that finds a binding for another device *)
(* A with last_seen = T is, at its time T', accepted with the binding      *)
(* overwritten by {B, last_seen = T'} exactly when T' - T exceeds          *)
(* heartbeat_timeout; otherwise it is answered 409 and leaves the binding  *)
(* as it is.  So a heartbeat from A that finds B's fresh binding is        *)
(* answered 409.                                                           *)
(***************************************************************************)
DeviceHandoff ==
    [][\A h \in HbProcs :
          (/\ hb[h].pc = "set" /\ hb'[h].pc = "idle"
           /\ hb[h].current # None
           /\ hb[h].current.DeviceID # hb[h].deviceID)
          => IF hb[h].at - hb[h].current.LastSeen > HeartbeatTimeout
             THEN /\ hb'[h].status = 200
                  /\ devices'[hb[h].token] =
                        [DeviceID |-> hb[h].deviceID, LastSeen |-> hb[h].at]
             ELSE /\ hb'[h].status = 409
                  /\ devices' = devices]_vars

\* Device d2 took the binding over from d1 once the timeout had elapsed, and
\* a heartbeat from d1 right after the takeover has been answered 409
DeviceHandoffWitness ==
    \E t \in HbTokens, h \in HbProcs :
        /\ devices[t] # None
        /\ devices[t].DeviceID = "d2"
        /\ accepted[t]["d1"] >= 0
        /\ accepted[t]["d2"] = devices[t].LastSeen
        /\ accepted[t]["d2"] - accepted[t]["d1"] = HeartbeatTimeout + 1
        /\ HbIdle(h) /\ hb[h].token = t /\ hb[h].deviceID = "d1"
        /\ hb[h].status = 409
        /\ now = devices[t].LastSeen

(***************************************************************************)
(* C20.  The body of the 409 answered to a heartbeat rejected by the       *)
(* device binding carries the remaining wait,                              *)
(* heartbeat_timeout - (now - binding.last_seen).                          *)
(***************************************************************************)
ConflictCarriesWait ==
    [][\A h \in HbProcs :
          (hb[h].pc = "set" /\ hb'[h].pc = "idle" /\ hb'[h].status = 409)
          => \E key \in DOMAIN hb'[h].body :
                hb'[h].body[key] =
                   FormatInt(HeartbeatTimeout - (hb[h].at - hb[h].current.LastSeen))]_vars

(***************************************************************************)
(* C12.  Whenever the playlist endpoint or the heartbeat endpoint accepts  *)
(* a token for the stream, that is whenever the token has a session for    *)
(* the stream, and the payment the token was generated for is completed,   *)
(* the token_expiry of that payment has not passed, heartbeats that        *)
(* refreshed the session TTL included.                                     *)
(***************************************************************************)
AcceptedTokenIsPaid ==
    \A n \in 1..Len(minted) :
        (/\ SessionGate(sessions, NewToken(n), UUIDString(PayStream)) = 0
         /\ payments[minted[n].payment].Status = "completed")
            => ~TokenExpired(payments[minted[n].payment].TokenExpiry, now)

(***************************************************************************)
(* C15.  A payment is moved to completed, with a token generated for it,   *)
(* at most once: a success callback that comes to its update when the      *)
(* payment is already completed, a second callback racing with the first   *)
(* included, generates no token and leaves the payment as it is, and no    *)
(* payment has had two tokens generated by callbacks.                      *)
(***************************************************************************)
CompletedOnce ==
    [][/\ \A c \in CbProcs :
            (/\ cb[c].pc = "update" /\ cb'[c].pc # "update"
             /\ payments[cb[c].id].Status = "completed")
            => Len(minted') = Len(minted) /\ payments' = payments
       /\ \A i \in 1..Len(payments') :
            Cardinality({n \in 1..Len(minted') :
                            /\ minted'[n].payment = i
                            /\ minted'[n].by = "callback"}) <= 1]_vars

(***************************************************************************)
(* C13.  When no recovery is in progress, the only token issued for a      *)
(* payment that has a session is the one stored in the payment's           *)
(* access_token; every other token issued for it has neither a session nor *)
(* a device binding.                                                       *)
(***************************************************************************)
OnlyCurrentTokenLive ==
    (\A r \in RecProcs : rec[r].pc = "idle") =>
        \A n \in 1..Len(minted) :
            NewToken(n) # payments[minted[n].payment].AccessToken =>
                /\ sessions[NewToken(n)] = None
                /\ devices[NewToken(n)] = None

(***************************************************************************)
(* C14.  Once a recovery has returned success, a playlist request carrying *)
(* the token it replaced, if that token was ever given to a client, is     *)
(* answered 401 by the session gate, at every later time.                  *)
(***************************************************************************)
RetiredTokenRejected ==
    \A n \in 1..Len(minted) :
        (minted[n].sent /\ NewToken(n) \in retired) =>
            SessionGate(sessions, NewToken(n), UUIDString(PayStream)) = 401

(***************************************************************************)
(* C16.  CheckAndIncrementRateLimit lets at most `limit` calls through per *)
(* window of a key and sets the window's expiry on the first increment     *)
(* only; a recovery call passes the limiter exactly when the counters of   *)
(* its email and of its address are both below their limits, so that with  *)
(* the address below its limit the first `limit` calls for an email pass   *)
(* and the next one is answered 429, whatever payments the email has.      *)
(***************************************************************************)
RateLimitWindow ==
    [][/\ \A k \in RateKeys :
            /\ rateLimit'[k] # None =>
                  rateLimit'[k].count <=
                     (IF k = IPKey(ClientIP) THEN RecoveryRateLimitPerIP
                      ELSE RecoveryRateLimitPerEmail)
            /\ (rateLimit[k] # None /\ rateLimit'[k] # None)
                  => rateLimit'[k].expires = rateLimit[k].expires
            /\ (rateLimit[k] = None /\ rateLimit'[k] # None)
                  => rateLimit'[k] = [count |-> 1, expires |-> now + RateWindow]
       /\ \A r \in RecProcs, e \in Emails :
            LET Count(k) == IF rateLimit[k] = None THEN 0 ELSE rateLimit[k].count
                below == /\ Count(EmailKey(e)) < RecoveryRateLimitPerEmail
                         /\ Count(IPKey(ClientIP)) < RecoveryRateLimitPerIP
            IN  /\ (rec[r].pc = "idle" /\ rec'[r].pc = "lookup" /\ rec'[r].email = e)
                      => below
                /\ (/\ rec[r].pc = "idle" /\ recResp' # recResp
                    /\ recResp' = Response(e, 429, 0))
                      => ~below]_vars

\* The call after the last one the email's window lets through has been
\* answered 429, for an email that has no payment
RateLimitWindowWitness ==
    /\ recResp # None
    /\ recResp.status = 429
    /\ rateLimit[EmailKey(recResp.email)] # None
    /\ rateLimit[EmailKey(recResp.email)].count = RecoveryRateLimitPerEmail
    /\ rateLimit[IPKey(ClientIP)].count < RecoveryRateLimitPerIP
    /\ CompletedPayments(recResp.email) = {}

(***************************************************************************)
(* C17.  Every response of the recovery endpoint, on every branch, is      *)
(* returned at least 500 ms after the handler started.                     *)
(***************************************************************************)
RecoveryFloorHolds ==
    recResp # None => recResp.elapsed >= RecoveryFloor

(***************************************************************************)
(* C18.  A recovery that finds the payment's token_expiry passed answers   *)
(* 410 and changes nothing: the lookup that returned the payment, the      *)
(* expiry check and the response leave the payments, the sessions and the  *)
(* device bindings as they were, and no token is generated.  The payment   *)
(* may be a synthetic one made for a whitelisted email.                    *)
(***************************************************************************)
ExpiredRecoveryGone ==
    [][\A r \in RecProcs :
          /\ (/\ rec[r].pc = "check" /\ rec'[r].pc # "check"
              /\ rec[r].expiry # -1 /\ now > rec[r].expiry)
             => /\ rec'[r].pc = "respond" /\ rec'[r].status = 410
                /\ UNCHANGED <<payments, minted, sessions, sessionTTL, devices>>
          /\ (\/ rec[r].pc = "lookup" /\ rec'[r].pc = "check"
              \/ rec[r].pc = "respond" /\ rec[r].status = 410 /\ rec'[r].pc = "idle")
             => UNCHANGED <<payments, minted, sessions, sessionTTL, devices,
                            retired>>]_vars

\* A recovery has found the synthetic payment of a whitelisted email expired
\* and is answering 410
ExpiredRecoveryGoneWitness ==
    \E r \in RecProcs :
        /\ rec[r].pc = "respond" /\ rec[r].status = 410
        /\ payments[rec[r].id].PaytrailRef = <<"whitelist">>
        /\ payments[rec[r].id].AccessToken = rec[r].old
        /\ now > payments[rec[r].id].TokenExpiry

(***************************************************************************)
(* C19.  Recovery inserts a synthetic completed payment (amount 0,         *)
(* reference "whitelist") only when the email is on the whitelist and has  *)
(* no completed payment for the stream, and there is never more than one   *)
(* synthetic payment for an email and the stream.                          *)
(***************************************************************************)
OneSyntheticPayment ==
    [][(/\ Len(payments') > Len(payments)
        /\ payments'[Len(payments')].PaytrailRef = <<"whitelist">>)
       => LET new == payments'[Len(payments')]
          IN  /\ new.AmountCents = 0 /\ new.Status = "completed"
              /\ new.Email \in whitelist
              /\ CompletedPayments(new.Email) = {}
              /\ Cardinality({i \in 1..Len(payments') :
                                 /\ payments'[i].PaytrailRef = <<"whitelist">>
                                 /\ payments'[i].Email = new.Email}) <= 1]_vars
(***************************************************************************)
(* C21.  A heartbeat that carries a token only in the Authorization bearer *)
(* header, the token of a live session for the stream asked for, is not    *)
(* answered 401.                                                           *)
(***************************************************************************)
BearerOnly(h) ==
    LET req == viewers'.req[h]
    IN  /\ req # None
        /\ req.cookie = <<>> /\ req.query = <<>>
        /\ \E t \in GateTokens :
              /\ req.auth = Bearer(t)
              /\ sessions'[t] # None
              /\ sessions'[t].StreamID = hb'[h].streamID

BearerHeartbeatAuthenticated ==
    [][\A h \in HbProcs :
          (hb'[h] # hb[h] /\ hb'[h].pc = "idle" /\ BearerOnly(h))
              => hb'[h].status # 401]_vars

(***************************************************************************)
(* C22.  A read of the active-viewer count returns the number of tokens    *)
(* whose score, the second 45 s after their latest accepted heartbeat, is  *)
(* not below the time of the read, and leaves exactly those in the set.    *)
(***************************************************************************)
ActiveAt(before, at) == {t \in Members(before) : Seconds(before[t]) >= at}

ViewerCountExact ==
    viewers.count # None =>
        /\ viewers.count.n = Cardinality(ActiveAt(viewers.count.before, viewers.count.at))
        /\ Members(viewers.count.after)
               = ActiveAt(viewers.count.before, viewers.count.at)

(***************************************************************************)
(* The lines of a text as a reader of the playlist sees them: each ends at *)
(* a "\n" or at the end of the text, and a "\r" before that end belongs to *)
(* the line ending.                                                        *)
(***************************************************************************)
Newlines(text) == {i \in 1..Len(text) : text[i] = "\n"}

LineCount(text) ==
    Cardinality(Newlines(text))
        + (IF text # <<>> /\ text[Len(text)] # "\n" THEN 1 ELSE 0)

LineStart(text, k) ==
    IF k = 1 THEN 1
    ELSE 1 + CHOOSE i \in Newlines(text) :
                 Cardinality({j \in Newlines(text) : j < i}) = k - 2

LineEnd(text, k) ==
    IF k <= Cardinality(Newlines(text))
    THEN (CHOOSE i \in Newlines(text) :
              Cardinality({j \in Newlines(text) : j < i}) = k - 1) - 1
    ELSE Len(text)

RawLine(text, k) == SubSeq(text, LineStart(text, k), LineEnd(text, k))

LineBody(text, k) ==
    LET raw == RawLine(text, k)
    IN  IF raw # <<>> /\ raw[Len(raw)] = "\r" THEN SubSeq(raw, 1, Len(raw) - 1)
        ELSE raw

IsComment(line) == line # <<>> /\ line[1] \in HashAtoms

SignedProxy(line, streamID, token, t) ==
    \E q \in 1..Len(line) :
        /\ line[q] = "?"
        /\ LET path == SubSeq(line, 1, q - 1)
           IN  /\ Len(path) >= 3
               /\ SubSeq(path, 1, 3) = <<"/stream/">> \o streamID \o <<"/hls/">>
               /\ line = URLText(SignURL(streamID, token, path, t))

OutputLinesSigned ==
    rw # None =>
        \A k \in 1..LineCount(rw.out) :
            LET line == RawLine(rw.out, k)
            IN  \/ line = <<>>
                \/ IsComment(line)
                \/ SignedProxy(line, rw.streamID, rw.token, rw.at)

(***************************************************************************)
(* C25.  A relative URI line of a playlist is rewritten to the proxy path  *)
(* of the playlist's directory followed by the URI; a request for the      *)
(* rewritten line is for that path, and for a segment it fetches           *)
(* {origin}/hls/{directory}{URI}, at every depth of nesting.               *)
(***************************************************************************)
DirOf(path) ==
    LET is == {i \in 1..Len(path) : path[i] = "/"}
    IN  IF is = {} THEN <<>>
        ELSE SubSeq(path, 1, CHOOSE i \in is : \A j \in is : j <= i)

IsRelative(line) == IsURLLine(line) /\ line[1] \notin {"/", "http"}

OriginBase == <<"http", ":", "/", "/", "oc-", RewriteStream>>

HasScheme(line) ==
    Len(line) >= 4 /\ SubSeq(line, 1, 4) = <<"http", ":", "/", "/">>

ExternalURLUnchanged ==
    rw # None =>
        \A k \in 1..LineCount(rw.text) :
            LET line == LineBody(rw.text, k)
            IN  HasScheme(line) => RawLine(rw.out, k) = line

(***************************************************************************)
(* C27.  The playlist sent to a client does not contain the origin base    *)
(* URL of the stream.                                                      *)
(***************************************************************************)
Contains(text, sub) ==
    \E i \in 1..(Len(text) - Len(sub) + 1) : SubSeq(text, i, i + Len(sub) - 1) = sub

OriginNotSent == rw # None => ~Contains(rw.out, OriginBase)

(***************************************************************************)
(* C28.  A request that starts more than 60 s after the last change of the *)
(* stream's status in the durable store is decided on the status the store *)
(* holds, and a record taken from the catalog cache is taken before its    *)
(* expiry.                                                                 *)
(***************************************************************************)
StatusSeenWithinTTL ==
    \A p \in CatProcs :
        LET d == cat.procs[p].decision
        IN  d # None =>
              /\ (d.changedAt >= 0 /\ d.start > d.changedAt + StreamCacheTTL)
                    => d.status = d.current
              /\ d.hit => d.at < d.expiresAt

(***************************************************************************)
(* C29.  The server serves only with a signing secret configured, and the  *)
(* secret it signs and verifies with is the configured one.                *)
(***************************************************************************)
ConfiguredSecretOnly ==
    boot # None =>
        /\ boot.serving => boot.env.SIGNING_SECRET # <<>>
        /\ boot.secret # <<>> => boot.secret = boot.env.SIGNING_SECRET

(***************************************************************************)
(* C30.  A playlist, segment, heartbeat or recovery request during which a *)
(* store operation fails is answered 500.                                  *)
(***************************************************************************)
StoreFailureIs500 ==
    (fault # None /\ fault.failed) => fault.status = 500

(***************************************************************************)
(* C31.  No entry of the playlist cache holds a token, a signature or a    *)
(* token / sig parameter, and a playlist served to a request carrying one  *)
(* token holds neither another token nor a signature computed over another *)
(* token, also when the cached playlist was fetched for a request carrying *)
(* that other token.                                                       *)
(***************************************************************************)
\* The text holds the token, as sent in a query string
MentionsToken(body, token) ==
    \E i \in 1..Len(body) : Contains(body[i], QueryEscape(token))

\* The text holds a signature computed over the token
SignedFor(body, token) ==
    \E i \in 1..Len(body) : Contains(body[i], HexEncode(token))

HoldsCredential(body) ==
    \/ \E t \in AccessTokens : MentionsToken(body, t) \/ SignedFor(body, t)
    \/ \E i \in 1..Len(body) : \E j \in 1..Len(body[i]) : body[i][j] \in {"token", "sig"}

PlaylistServed ==
    /\ hlsResp # None
    /\ hlsResp.status = 200
    /\ IsPlaylistPath(hlsResp.req.hlsPath)

PlaylistCacheTokenFree ==
    /\ \A k \in UpstreamURLs :
          playlistCache[k] # None => ~HoldsCredential(playlistCache[k].content)
    /\ PlaylistServed =>
          \A t \in AccessTokens \ {QueryGet(hlsResp.req.query, "token")} :
              ~MentionsToken(hlsResp.body, t) /\ ~SignedFor(hlsResp.body, t)

\* A playlist fetched for t2 is served from the cache to t1, signed for t1
PlaylistCacheTokenFreeWitness ==
    /\ PlaylistServed
    /\ ~hlsResp.fetched
    /\ QueryGet(hlsResp.req.query, "token") = <<"t1">>
    /\ share[UpstreamURL([OwncastURL |-> OwncastURLOf("u1")], hlsResp.req.hlsPath)]
           = <<"t2">>
    /\ MentionsToken(hlsResp.body, <<"t1">>)
    /\ SignedFor(hlsResp.body, <<"t1">>)

(***************************************************************************)
(* C32.  VerifySignature accepts the signature CalculateSignature gives    *)
(* for a parameter map and an empty body when it is presented with that    *)
(* map, whatever the case of the map's checkout-* keys, and rejects it     *)
(* when the value of a checkout-* parameter has been changed or when       *)
(* another signature string is presented.                                  *)
(***************************************************************************)
SignatureRoundTrip ==
    pt # None /\ pt.presented # None =>
        pt.presented.ok = (pt.presented.kind = "same")

(***************************************************************************)
(* C33.  Whenever a handler writes a signed URL (the watch page, the       *)
(* playlist URL endpoint, a heartbeat answer, the lines of a rewritten     *)
(* playlist), the URL binds a token to a stream that the token's session   *)
(* or the token's payment names, as the stores stood when the handler      *)
(* signed.                                                                 *)
(***************************************************************************)
\* The text holds a signature over (streamID, token, ...)
Binds(text, streamID, token) ==
    Contains(text, HexEncode(HmacSum(SigningSecret,
                                     streamID \o <<":">> \o token \o <<":">>)))

\* The token's session or payment is for the stream
Entitled(streamID, token) ==
    \/ sessions[token] # None /\ sessions[token].StreamID = streamID
    \/ \E i \in 1..Len(payments) : /\ payments[i].AccessToken = token
                                   /\ UUIDString(payments[i].StreamID) = streamID

\* The step writes a response that holds a URL binding token to streamID
IssuesFor(streamID, token) ==
    \/ /\ page' # page /\ page' # None /\ page'.status = 200
       /\ Binds(page'.url, streamID, token)
    \/ \E h \in HbProcs :
          /\ hb[h].pc # "idle" /\ hb'[h].pc = "idle" /\ hb'[h].status = 200
          /\ Binds(hb'[h].body.playlist_url, streamID, token)
    \/ /\ hlsResp = None /\ hlsResp' # None /\ hlsResp'.status = 200
       /\ IsPlaylistPath(hlsResp'.req.hlsPath)
       /\ \E i \in 1..Len(hlsResp'.body) : Binds(hlsResp'.body[i], streamID, token)

SignsOnlyOwnStream ==
    [][\A id \in RequestIDs, t \in GateTokens :
          IssuesFor(id, t) => Entitled(id, t)]_vars

\* The watch page hands t1 a URL of its stream after t1's session was
\* deleted, while t2 holds a payment of another stream; a heartbeat of t1
\* was answered with a URL before
SignsOnlyOwnStreamWitness ==
    /\ page # None /\ page.status = 200 /\ page.handler = "Watch"
    /\ Binds(page.url, <<"s1">>, <<"t1">>)
    /\ sessions[<<"t1">>] = None
    /\ hb["h1"].status = 200 /\ hb["h1"].token = <<"t1">>
    /\ Binds(hb["h1"].body.playlist_url, <<"s1">>, <<"t1">>)
    /\ GetPaymentByAccessToken(<<"t2">>) # None

(***************************************************************************)
(* C34.  A URL line that rewritePlaylist wrote for a relative URI, a URI   *)
(* in a subdirectory or a rooted URI, requested as it was sent and before  *)
(* its expiry, reaches ServeHLS with the path that was signed and passes   *)
(* the signature verification.                                             *)
(***************************************************************************)
RewrittenLineVerifies ==
    (rw # None /\ rw.req # None /\ ~HasScheme(rw.req.line)) =>
        /\ ~rw.req.redirected
        /\ rw.req.rebuilt = rw.req.signedPath
        /\ rw.req.verdict = "ok"

(***************************************************************************)
(* C35.  A step of a heartbeat changes the session TTLs, the sessions, the *)
(* device bindings or the active-session sets only when it is the step     *)
(* that answers the heartbeat 200: a heartbeat answered 401, 403 or 409    *)
(* leaves them all as they were.                                           *)
(***************************************************************************)
HeartbeatStores == <<sessions, sessionTTL, devices, activeSessions>>

\* Heartbeat h takes a step that does not answer it 200
StepWithout200(h) ==
    /\ hb'[h] # hb[h]
    /\ ~(hb'[h].pc = "idle" /\ hb'[h].status = 200)

RejectedHeartbeatWritesNothing ==
    [][\A h \in HbProcs : StepWithout200(h) => UNCHANGED HeartbeatStores]_vars

\* Device d2 has been answered 409 while d1 holds the binding, and a
\* heartbeat for another stream 403
RejectedHeartbeatWitness ==
    /\ hb["h1"].pc = "idle" /\ hb["h1"].status = 409 /\ hb["h1"].deviceID = "d2"
    /\ devices[hb["h1"].token] # None
    /\ devices[hb["h1"].token].DeviceID = "d1"
    /\ hb["h2"].pc = "idle" /\ hb["h2"].status = 403

(***************************************************************************)
(* C36.  A heartbeat without a device id is answered in one step, 200, 401 *)
(* or 403 and never 409, without reading or writing the device binding,    *)
(* whatever device is bound; answered 200 it has set the session TTL to    *)
(* now + SessionDuration and the token's presence score to now + 45 s.     *)
(***************************************************************************)
NoDeviceID(h) == hb[h].pc = "session" /\ hb[h].deviceID = ""

NoDeviceIDSkipsBinding ==
    [][\A h \in HbProcs :
          (NoDeviceID(h) /\ hb'[h] # hb[h]) =>
              /\ hb'[h].pc = "idle"
              /\ hb'[h].status \in {200, 401, 403}
              /\ hb'[h].current = None
              /\ devices' = devices
              /\ hb'[h].status = 200 =>
                    /\ sessionTTL'[hb[h].token] = now + SessionDuration
                    /\ activeSessions'[UUIDParse(hb[h].streamID).uuid][hb[h].token]
                           = Unix(now + PresenceTTL)]_vars

\* A heartbeat without a device id is answered 200 while d1 holds a binding
\* that would refuse another device
NoDeviceIDWitness ==
    \E h \in HbProcs :
        /\ hb[h].pc = "idle" /\ hb[h].status = 200 /\ hb[h].deviceID = ""
        /\ devices[hb[h].token] # None
        /\ devices[hb[h].token].DeviceID = "d1"
        /\ ~DeviceAllowed(devices[hb[h].token], "d2", now)
        /\ activeSessions[UUIDParse(hb[h].streamID).uuid][hb[h].token]
               = Unix(now + PresenceTTL)

(***************************************************************************)
(* C37.  Once d1, the bound device, has stopped sending heartbeats, and d2 *)
(* keeps sending them for the same token while its session lives, d2 is    *)
(* eventually bound: its heartbeat is accepted.                            *)
(***************************************************************************)
BoundTo(d) == devices[<<"t1">>] # None /\ devices[<<"t1">>].DeviceID = d

IncumbentStopped ==
    /\ ticks >= StopAfter
    /\ sessions[<<"t1">>] # None
    /\ BoundTo("d1")

ChallengerEventuallyAccepted == IncumbentStopped ~> BoundTo("d2")

\* d2 holds the binding, taken more than HeartbeatTimeout after the last
\* heartbeat of d1 was accepted, after d1 had stopped
ChallengerAcceptedWitness ==
    /\ BoundTo("d2")
    /\ ticks >= StopAfter
    /\ accepted[<<"t1">>]["d1"] >= 0
    /\ devices[<<"t1">>].LastSeen - accepted[<<"t1">>]["d1"] > HeartbeatTimeout
    /\ hb["h2"].status = 200


(***************************************************************************)
(* C38.  Every caller inside a coalesced fetch, the caller that started it *)
(* or one waiting on it, is eventually given a result and answers, and an  *)
(* entry stays in the in-flight table only while the fetch of its key is   *)
(* running; the client of the caller that started the fetch may disconnect *)
(* at any moment of it.                                                    *)
(***************************************************************************)
InCall(p) == proc[p].pc \in {"wait", "inner", "fetching"}

FlightOnlyWhileRunning ==
    \A k \in UpstreamURLs :
        flight[k] # None =>
            /\ proc[flight[k].leader].pc \in {"inner", "fetching"}
            /\ proc[flight[k].leader].url = k

CoalescedFetchCompletes ==
    /\ []FlightOnlyWhileRunning
    /\ \A p \in FetchProcs : InCall(p) ~> Answered(p)

\* A caller that waited was served the bytes of a fetch whose starter's client
\* had disconnected before the fetch returned, and the table is empty
CoalescedFetchWitness ==
    \E p, q \in FetchProcs :
        /\ p # q /\ p \in gone /\ q \notin gone
        /\ Answered(p) /\ Answered(q)
        /\ proc[q].resp.status = 200
        /\ proc[q].resp.fetchNo >= 1
        /\ proc[q].resp.fetchNo = proc[p].resp.fetchNo
        /\ fetchLog[SegmentURL][proc[q].resp.fetchNo].by = p
        /\ \A k \in UpstreamURLs : flight[k] = None


(***************************************************************************)
(* C39.  The update a failure callback or a cancel callback makes, and the *)
(* answer to a pending callback, leave the status, the access token and    *)
(* the token expiry of every payment that is completed as they are,        *)
(* however the callback is interleaved with the success callback.          *)
(***************************************************************************)
\* The step in which callback c, a failure or a cancel, makes its update
FailureStep(c) == cb[c].pc \in {"fail", "cancel"} /\ cb'[c].pc = "idle"

CompletedKept(id) ==
    payments[id].Status = "completed" =>
        /\ payments'[id].Status = payments[id].Status
        /\ payments'[id].AccessToken = payments[id].AccessToken
        /\ payments'[id].TokenExpiry = payments[id].TokenExpiry

CompletedSurvivesFailure ==
    [][\A c \in CbProcs :
          FailureStep(c) => \A id \in 1..Len(payments) : CompletedKept(id)]_vars

====
